---- MODULE Spec2Model ----
(***************************************************************************)
(* Model of the reasoning-loop orchestrator of hypha-code-agent:           *)
(* AgentManager (messageReducer, processQuery, processQueryInReactLoop,     *)
(* executeCodeTool, clearHistory) together with the transport and the       *)
(* kernel it talks to.                                                      *)
(***************************************************************************)
EXTENDS Integers, Sequences, FiniteSets, TLC

(***************************************************************************)
(* JavaScript values.  Every value carries its run-time type in field t,    *)
(* so that the typeof / Array.isArray / === undefined tests of the reducer  *)
(* are translated as tests, not assumed.                                    *)
(***************************************************************************)
Undefined == [t |-> "undefined"]
Null == [t |-> "null"]
Str(s) == [t |-> "string", v |-> s]
Num(n) == [t |-> "number", v |-> n]
Arr(seq) == [t |-> "array", v |-> seq]
Obj(f) == [t |-> "object", v |-> f]
EmptyObject == <<>>

\* typeof x
Typeof(x) ==
  IF x.t \in {"null", "array", "object"} THEN "object" ELSE x.t

\* Array.isArray(x)
IsArray(x) == x.t = "array"

\* o[key] on the key/value mapping of an object: undefined when absent
Get(o, key) == IF key \in DOMAIN o THEN o[key] ELSE Undefined

\* const { index, ...rest } = o  /  delete o.index
WithoutIndex(o) == [k \in (DOMAIN o) \ {"index"} |-> o[k]]

\* arr[index] = x on a JavaScript array (0-based index, holes are undefined)
SetAt(seq, index, x) ==
  [p \in 1..(IF index + 1 > Len(seq) THEN index + 1 ELSE Len(seq)) |->
     IF p = index + 1 THEN x
     ELSE IF p <= Len(seq) THEN seq[p] ELSE Undefined]

\* arr[index] on a JavaScript array
At(seq, index) ==
  IF index + 1 \in 1..Len(seq) THEN seq[index + 1] ELSE Undefined

RECURSIVE reduce(_, _)
RECURSIVE reduceArray(_, _, _)

\* for (let i = 0; i < value.length; i++) accArray[index] = reduce(accArray[index] || {}, chunkTool)
reduceArray(accArray, value, i) ==
  IF i > Len(value) THEN accArray
  ELSE LET index == value[i].v["index"].v
           chunkTool == WithoutIndex(value[i].v)
           slot == At(accArray, index)
           base == IF slot.t = "object" THEN slot.v ELSE EmptyObject
       IN reduceArray(SetAt(accArray, index, Obj(reduce(base, chunkTool))),
                      value, i + 1)

\* one key of the for-loop over Object.entries(delta)
reduceKey(old, value) ==
  IF old.t \in {"undefined", "null"} THEN
    IF IsArray(value)
      THEN Arr([p \in 1..Len(value.v) |->
                  IF value.v[p].t = "object" THEN Obj(WithoutIndex(value.v[p].v))
                  ELSE value.v[p]])
      ELSE value
  ELSE IF Typeof(old) = "string" /\ Typeof(value) = "string" THEN
    Str(old.v \o value.v)
  ELSE IF Typeof(old) = "number" /\ Typeof(value) = "number" THEN
    value
  ELSE IF IsArray(old) /\ IsArray(value) THEN
    Arr(reduceArray(old.v, value.v, 1))
  \* typeof acc[key] === 'object' && typeof value === 'object'; of the values
  \* with typeof 'object' the deltas of this model pair only plain objects
  ELSE IF old.t = "object" /\ value.t = "object" THEN
    Obj(reduce(old.v, value.v))
  ELSE old

\* const reduce = (acc, delta) => { acc = {...acc}; for (const [key, value] of Object.entries(delta)) ...; return acc }
reduce(acc, delta) ==
  [key \in (DOMAIN acc) \cup (DOMAIN delta) |->
     IF key \in DOMAIN delta THEN reduceKey(Get(acc, key), delta[key])
     ELSE acc[key]]

RECURSIVE previousAfter(_, _)
\* the object passed as acc, as it is once reduce(acc, delta) has returned:
\* acc = {...acc} copies one level, so an array of acc is the array the loop
\* at accArray[index] = ... writes into, and an object of acc is the object
\* the nested reduce was given
previousAfter(acc, delta) ==
  [key \in DOMAIN acc |->
     IF key \notin DOMAIN delta THEN acc[key]
     ELSE IF IsArray(acc[key]) /\ IsArray(delta[key])
       THEN Arr(reduceArray(acc[key].v, delta[key].v, 1))
     ELSE IF acc[key].t = "object" /\ delta[key].t = "object"
       THEN Obj(previousAfter(acc[key].v, delta[key].v))
     ELSE acc[key]]

RECURSIVE deltaAfter(_, _)
\* the object passed as delta, as it is once reduce(acc, delta) has returned:
\* acc[key] = value stores the delta's own array, whose items then lose their
\* index (delete arr.index).  The items of an array reduced by index are
\* copied ({ index, ...chunkTool }) and hold no arrays in this model
deltaAfter(acc, delta) ==
  [key \in DOMAIN delta |->
     LET old == Get(acc, key)
         value == delta[key]
     IN IF old.t \in {"undefined", "null"} THEN reduceKey(old, value)
        ELSE IF old.t = "object" /\ value.t = "object"
          THEN Obj(deltaAfter(old.v, value.v))
        ELSE value]

\* a chunk without choices
NoChoice == [t |-> "nochoice"]

\* the two arguments of messageReducer(previous, chunk) as they are after the
\* call returned
messageReducerArguments(previous, chunk) ==
  IF chunk = NoChoice THEN [previous |-> previous, chunk |-> chunk]
  ELSE [previous |-> previousAfter(previous, chunk),
        chunk |-> deltaAfter(previous, chunk)]

\* messageReducer(previous, chunk): chunk is the delta of choices[0], or NoChoice
messageReducer(previous, chunk) ==
  IF chunk = NoChoice THEN previous ELSE reduce(previous, chunk)

\* let message = { role: 'assistant', content: '' }
InitialMessage == [role |-> Str("assistant"), content |-> Str("")]


(***************************************************************************)
(* Bounds of the model.                                                    *)
(***************************************************************************)
\* largest maxSteps argument a caller passes
MaxStepsArg == 4

\* run slots: one per invocation that can be in flight
RunIds == {1}

(***************************************************************************)
(* The transport: streamed responses of chat.completions.create.           *)
(***************************************************************************)
\* arguments text the model streams for executeCode
GoodArgs == "{\"code\":\"print(1)\",\"explanation\":\"e\"}"
\* valid JSON without a code member
NoCodeArgs == "{}"
\* a truncated, unparsable arguments text
BadArgs == "{\"code\":"

\* first fragment of a tool call: index, id, type and the start of function
FragStart(i, id, name, args) ==
  Obj([index |-> Num(i), id |-> Str(id), type |-> Str("function"),
       function |-> Obj([name |-> Str(name), arguments |-> Str(args)])])

\* a later fragment of a tool call: more arguments text
FragArgs(i, args) ==
  Obj([index |-> Num(i), function |-> Obj([arguments |-> Str(args)])])

\* a later fragment of a tool call: more name text
FragName(i, name) ==
  Obj([index |-> Num(i), function |-> Obj([name |-> Str(name)])])

DeltaRole == [role |-> Str("assistant"), content |-> Str("")]
DeltaText(s) == [content |-> Str(s)]
DeltaFirstTools(frags) ==
  [role |-> Str("assistant"), content |-> Null, tool_calls |-> Arr(frags)]
DeltaTools(frags) == [tool_calls |-> Arr(frags)]

\* a plain answer, streamed in two text fragments
RespText == <<DeltaRole, DeltaText("Hel"), DeltaText("lo")>>
\* a stream without any delta
RespEmpty == <<>>
\* one executeCode call, name and arguments streamed in pieces
RespExec ==
  <<DeltaFirstTools(<<FragStart(0, "call_a", "execu", "")>>),
    DeltaTools(<<FragName(0, "teCode")>>),
    DeltaTools(<<FragArgs(0, GoodArgs)>>)>>
\* two executeCode calls in one assistant turn: the first with arguments that
\* are not valid JSON, the second with arguments that carry no code
RespTwo ==
  <<DeltaFirstTools(<<FragStart(0, "call_b", "executeCode", BadArgs)>>),
    DeltaTools(<<FragStart(1, "call_c", "executeCode", NoCodeArgs)>>),
    NoChoice>>
\* one call of a tool the agent does not have
RespUnknown ==
  <<DeltaFirstTools(<<FragStart(0, "call_u", "searchWeb", "{}")>>)>>
\* two executeCode calls followed by a fragment that skips index 2
RespGap ==
  <<DeltaFirstTools(<<FragStart(0, "call_e", "executeCode", GoodArgs),
                      FragStart(1, "call_f", "executeCode", GoodArgs)>>),
    DeltaTools(<<FragStart(3, "call_g", "executeCode", GoodArgs)>>)>>

\* responses in which every tool call is a complete executeCode call
ExecResponses == {RespExec, RespTwo}
Responses == ExecResponses \cup {RespText, RespEmpty, RespUnknown, RespGap}

Queries == {"q"}
Modes == {"react", "single"}

(***************************************************************************)
(* The kernel: outcomes of kernelManager.executeCode as seen by             *)
(* executeCodeTool.                                                         *)
(***************************************************************************)
KernelOutcomes == {"success", "failure", "throws"}

VARIABLES
  conversationHistory,  \* AgentManager.conversationHistory
  kernelInitialized,    \* KernelManager.isInitialized()
  run,                  \* locals and position of each invocation
  jobQueue,             \* the job queue: its job records, order list and worker
  settings,             \* SettingsManager.settings
  localStorage,         \* the item stored under STORAGE_KEY, or null
  agentSettings,        \* AgentManager.settings
  startup,              \* urlParams, agentArtifact and the position of the startup
  terminalRenderer,     \* TerminalRenderer.commandHistory and historyIndex
  kernelRestart         \* the restart button and the position of restartKernel

\* the state of the page around the agent
page == <<settings, localStorage, agentSettings, startup, terminalRenderer, kernelRestart>>

vars == <<conversationHistory, kernelInitialized, run, jobQueue, page>>


(***************************************************************************)
(* Conversation messages.                                                  *)
(***************************************************************************)
UserMessage(text) ==
  [role |-> "user", content |-> Str(text),
   tool_calls |-> Undefined, tool_call_id |-> Undefined]

\* { role: 'assistant', content: message.content || '', ...(message.tool_calls && { tool_calls }) }
AssistantMessage(message) ==
  LET content == Get(message, "content")
      tcs == Get(message, "tool_calls")
  IN [role |-> "assistant",
      content |-> IF content.t = "string" /\ content.v # "" THEN content ELSE Str(""),
      tool_calls |-> IF tcs.t \in {"undefined", "null"} THEN Undefined ELSE tcs,
      tool_call_id |-> Undefined]

\* JSON.stringify of a tool result: the text of a JSON object with these members
JSONStringify(members) == [json |-> members]

\* { role: 'tool', tool_call_id: toolCall.id, content: JSON.stringify(...) }
ToolMessage(toolCall, members) ==
  [role |-> "tool", content |-> JSONStringify(members),
   tool_calls |-> Undefined, tool_call_id |-> Get(toolCall, "id")]

ReminderText == "You are approaching the maximum number of reasoning steps"
ReminderMessage == UserMessage(ReminderText)

\* JSON.parse(text): the parsed object, or a SyntaxError
JSONParse(text) ==
  IF text = Str(GoodArgs)
    THEN [threw |-> FALSE, value |-> [code |-> Str("print(1)"), explanation |-> Str("e")]]
  ELSE IF text = Str(NoCodeArgs)
    THEN [threw |-> FALSE, value |-> EmptyObject]
  ELSE [threw |-> TRUE, value |-> EmptyObject]

\* executeCodeTool whose catch block reports success
executeCodeToolCatchSucceeds(outcome) ==
  IF outcome = "success"
    THEN [success |-> TRUE, output |-> "Code executed successfully (no output)"]
  ELSE IF outcome = "failure"
    THEN [success |-> FALSE, output |-> "Unknown error"]
  ELSE [success |-> TRUE, output |-> "Execution error: sandbox"]

\* executeCodeTool after kernelManager.executeCode settled with the outcome:
\* a thrown error is caught and returned as a failed result
executeCodeTool(outcome) ==
  IF outcome = "success"
    THEN [success |-> TRUE, output |-> "Code executed successfully (no output)"]
  ELSE IF outcome = "failure"
    THEN [success |-> FALSE, output |-> "Unknown error"]
  ELSE [success |-> FALSE, output |-> "Execution error: sandbox"]

(***************************************************************************)
(* processQueryInReactLoop and processQuery, cut at their awaits.          *)
(* Each operator below takes the locals of the invocation (rec) and the    *)
(* history and returns both after running to the next await or to the end. *)
(***************************************************************************)
Emit(rec, kind) == [rec EXCEPT !.emitted = @ \cup {kind}]

\* Abort that discards the history of the failed run
AbortRollsBack(rec, hist) ==
  [run |-> [Emit(rec, "agentError") EXCEPT !.pc = "threw"], hist |-> <<>>]

\* Abort that issues the completion call again instead of rethrowing
AbortRetries(rec, hist) ==
  [run |-> [Emit(rec, "agentError") EXCEPT !.pc = "create", !.completions = @ + 1],
   hist |-> hist]

\* catch (error) { onOutput('Agent error: ...'); throw error }
Abort(rec, hist) ==
  [run |-> [Emit(rec, "agentError") EXCEPT !.pc = "threw"], hist |-> hist]

\* if (loopCount >= maxSteps) onOutput('Reached maximum reasoning steps')
AfterLoop(rec, hist) ==
  [run |-> [(IF rec.loopCount >= rec.maxSteps THEN Emit(rec, "exhausted") ELSE rec)
              EXCEPT !.pc = "returned"],
   hist |-> hist]

\* LoopTop with the loop condition off by one: loopCount <= maxSteps
LoopTopOffByOne(rec, hist) ==
  IF rec.loopCount <= rec.maxSteps
    THEN [run |-> [rec EXCEPT !.loopCount = @ + 1, !.completions = @ + 1,
                              !.pc = "create"],
          hist |-> hist]
    ELSE AfterLoop(rec, hist)

\* while (loopCount < maxSteps) { loopCount++; ... await create(...)
LoopTop(rec, hist) ==
  IF rec.loopCount < rec.maxSteps
    THEN [run |-> [rec EXCEPT !.loopCount = @ + 1, !.completions = @ + 1,
                              !.pc = "create"],
          hist |-> hist]
    ELSE AfterLoop(rec, hist)

\* AfterTools without the break: a step without executed tools goes on too
AfterToolsNoBreak(rec, hist) ==
  IF rec.mode = "single" THEN [run |-> [rec EXCEPT !.pc = "returned"], hist |-> hist]
  ELSE IF rec.hasExecutedTools
    THEN LoopTop(Emit(rec, "step"),
                 IF rec.loopCount >= rec.maxSteps - 2
                   THEN Append(hist, ReminderMessage) ELSE hist)
    ELSE LoopTop(Emit(rec, "final"), hist)

\* AfterTools with the reminder one step late: loopCount >= maxSteps - 1
AfterToolsLateReminder(rec, hist) ==
  IF rec.mode = "single" THEN [run |-> [rec EXCEPT !.pc = "returned"], hist |-> hist]
  ELSE IF rec.hasExecutedTools
    THEN LoopTop(Emit(rec, "step"),
                 IF rec.loopCount >= rec.maxSteps - 1
                   THEN Append(hist, ReminderMessage) ELSE hist)
    ELSE AfterLoop(Emit(rec, "final"), hist)

\* AfterTools that does not count the first step with executed tools
AfterToolsRefundsFirstStep(rec, hist) ==
  IF rec.mode = "single" THEN [run |-> [rec EXCEPT !.pc = "returned"], hist |-> hist]
  ELSE IF rec.hasExecutedTools
    THEN LoopTop([Emit(rec, "step") EXCEPT
                    !.loopCount = IF "step" \in rec.emitted THEN @ ELSE @ - 1],
                 IF rec.loopCount >= rec.maxSteps - 2
                   THEN Append(hist, ReminderMessage) ELSE hist)
    ELSE AfterLoop(Emit(rec, "final"), hist)

\* the end of a step, after the for loop over the tool calls
AfterTools(rec, hist) ==
  IF rec.mode = "single" THEN [run |-> [rec EXCEPT !.pc = "returned"], hist |-> hist]
  ELSE IF rec.hasExecutedTools
    THEN LoopTop(Emit(rec, "step"),
                 IF rec.loopCount >= rec.maxSteps - 2
                   THEN Append(hist, ReminderMessage) ELSE hist)
    ELSE AfterLoop(Emit(rec, "final"), hist)

RECURSIVE ToolLoop(_, _, _)
\* ToolLoop that goes on to the next call without appending the result of a
\* call whose arguments do not parse
ToolLoopDropsResult(rec, hist, i) ==
  LET tcs == rec.message["tool_calls"].v IN
  IF i > Len(tcs) THEN AfterTools(rec, hist)
  ELSE
    LET toolCall == tcs[i]
        fn == Get(toolCall.v, "function")
    IN
    IF toolCall.t # "object" THEN Abort(rec, hist)
    ELSE IF Get(toolCall.v, "type") # Str("function") THEN ToolLoop(rec, hist, i + 1)
    ELSE IF fn.t # "object" THEN Abort(rec, hist)
    ELSE IF Get(fn.v, "name") # Str("executeCode") THEN ToolLoop(rec, hist, i + 1)
    ELSE
      LET rec1 == [rec EXCEPT !.hasExecutedTools = TRUE]
          args == JSONParse(Get(fn.v, "arguments"))
      IN
      IF args.threw THEN ToolLoop(rec1, hist, i + 1)
      ELSE IF Get(args.value, "code").t # "string" THEN
        ToolLoop(rec1,
                 Append(hist, ToolMessage(toolCall.v,
                   [success |-> FALSE, error |-> "TypeError"])),
                 i + 1)
      ELSE [run |-> [rec1 EXCEPT !.pc = "exec", !.toolIdx = i], hist |-> hist]

\* for (const toolCall of message.tool_calls) from the i-th call on, up to
\* the await of kernelManager.executeCode or the end of the list
ToolLoop(rec, hist, i) ==
  LET tcs == rec.message["tool_calls"].v IN
  IF i > Len(tcs) THEN AfterTools(rec, hist)
  ELSE
    LET toolCall == tcs[i]
        fn == Get(toolCall.v, "function")
    IN
    IF toolCall.t # "object" THEN Abort(rec, hist)
    ELSE IF Get(toolCall.v, "type") # Str("function") THEN ToolLoop(rec, hist, i + 1)
    ELSE IF fn.t # "object" THEN Abort(rec, hist)
    ELSE IF Get(fn.v, "name") # Str("executeCode") THEN ToolLoop(rec, hist, i + 1)
    ELSE
      LET rec1 == [rec EXCEPT !.hasExecutedTools = TRUE]
          args == JSONParse(Get(fn.v, "arguments"))
      IN
      IF args.threw THEN
        ToolLoop(rec1,
                 Append(hist, ToolMessage(toolCall.v,
                   [success |-> FALSE, error |-> "SyntaxError"])),
                 i + 1)
      ELSE IF Get(args.value, "code").t # "string" THEN
        ToolLoop(rec1,
                 Append(hist, ToolMessage(toolCall.v,
                   [success |-> FALSE, error |-> "TypeError"])),
                 i + 1)
      ELSE [run |-> [rec1 EXCEPT !.pc = "exec", !.toolIdx = i], hist |-> hist]

\* StepBody that treats a message without content and without tool calls as
\* an error
StepBodyRejectsEmpty(rec, hist) ==
  LET tcs == Get(rec.message, "tool_calls")
      hist1 == Append(hist, AssistantMessage(rec.message))
      n == IF IsArray(tcs) THEN Len(tcs.v) ELSE 0
      rec1 == [rec EXCEPT !.hasExecutedTools = FALSE, !.toolCalls = n,
                          !.noToolAt = IF @ = 0 /\ n = 0 THEN rec.loopCount ELSE @]
  IN IF n = 0 /\ Get(rec.message, "content") \in {Str(""), Null, Undefined}
       THEN Abort(rec, hist)
     ELSE IF IsArray(tcs) /\ (rec.mode = "single" \/ n > 0)
       THEN ToolLoop(rec1, hist1, 1)
       ELSE AfterTools(rec1, hist1)

\* the code after the stream ended: push the assistant message, run the tools
StepBody(rec, hist) ==
  LET tcs == Get(rec.message, "tool_calls")
      hist1 == Append(hist, AssistantMessage(rec.message))
      n == IF IsArray(tcs) THEN Len(tcs.v) ELSE 0
      rec1 == [rec EXCEPT !.hasExecutedTools = FALSE, !.toolCalls = n,
                          !.noToolAt = IF @ = 0 /\ n = 0 THEN rec.loopCount ELSE @]
  IN IF IsArray(tcs) /\ (rec.mode = "single" \/ n > 0)
       THEN ToolLoop(rec1, hist1, 1)
       ELSE AfterTools(rec1, hist1)

\* the locals of an invocation.  toolCalls is message.tool_calls.length of the
\* step's message; completions counts the completion calls issued; onlyExec
\* tells that the transport answered every call with a response of
\* ExecResponses; noToolAt is the first step whose message had no tool calls;
\* start is the message the accumulation of the current stream began with;
\* forwarded are the onOutput calls made for the text of the current stream;
\* call holds the arguments of the last messageReducer call as the call left
\* them; result is what kernelManager.executeCode settles with when the
\* execution produces output events
IdleRun ==
  [pc |-> "idle", mode |-> "react", maxSteps |-> 0, loopCount |-> 0,
   message |-> InitialMessage, start |-> InitialMessage,
   response |-> <<>>, pending |-> <<>>, isFirstChunk |-> TRUE, forwarded |-> <<>>,
   toolIdx |-> 0,
   hasExecutedTools |-> FALSE, toolCalls |-> 0, emitted |-> {},
   completions |-> 0, onlyExec |-> FALSE, noToolAt |-> 0,
   call |-> [previous |-> InitialMessage, chunk |-> NoChoice],
   result |-> [success |-> TRUE, outputs |-> <<>>]]

(***************************************************************************)
(* The page around the agent: the settings and their storage, the startup  *)
(* configuration, the command history of the terminal and the restart      *)
(* button.  Settings are JavaScript objects: mappings from keys to values. *)
(***************************************************************************)
DEFAULT_SETTINGS ==
  [openaiProvider |-> Str("ollama"),
   openaiBaseUrl |-> Str("http://localhost:11434/v1/"),
   openaiModel |-> Str("qwen2.5-coder:7b"),
   openaiApiKey |-> Str("ollama"),
   hyphaServerUrl |-> Str("https://hypha.aicell.io"),
   hyphaWorkspace |-> Str(""),
   maxSteps |-> Num(25)]

\* { ...a, ...b }
Spread(a, b) ==
  [k \in (DOMAIN a) \cup (DOMAIN b) |-> IF k \in DOMAIN b THEN b[k] ELSE a[k]]

\* parseUrlParams() of a URL without query parameters

\* new TerminalRenderer(container).  lines tells whether the container holds
\* output; returned is what the last call returned when it was navigateHistory
\* and undefined otherwise; command is the argument of the last addToHistory;
\* ups and downs count the navigateHistory calls since that addToHistory as
\* long as they are 'up' calls followed by 'down' calls (pattern)
NewTerminalRenderer ==
  [commandHistory |-> <<>>, historyIndex |-> -1, returned |-> Undefined,
   lines |-> FALSE, command |-> <<>>, ups |-> 0, downs |-> 0, pattern |-> FALSE]

\* the page when its script has run: settingsManager constructed on an
\* empty storage, nothing else started
InitPage ==
  /\ settings = DEFAULT_SETTINGS
  /\ localStorage = Null
  /\ agentSettings = DEFAULT_SETTINGS
  /\ startup = [pc |-> "idle", urlParams |-> EmptyObject, agentArtifact |-> Null]
  /\ terminalRenderer = NewTerminalRenderer
  /\ kernelRestart = [pc |-> "idle", disabled |-> TRUE]

\* the queue after construction: no job, nothing to drain, no worker
EmptyQueue ==
  [jobs |-> <<>>, order |-> <<>>, worker |-> "stopped", current |-> 0, clock |-> 0,
   cancelled |-> [jobId |-> 0, returned |-> FALSE]]

Init ==
  /\ conversationHistory = <<>>
  /\ kernelInitialized = FALSE
  /\ jobQueue = EmptyQueue
  /\ InitPage
  /\ run = [r \in RunIds |-> IdleRun]

Set(r, res) ==
  /\ run' = [run EXCEPT ![r] = res.run]
  /\ conversationHistory' = res.hist

\* KernelManager.initialize succeeded
KernelInitialize ==
  /\ ~kernelInitialized
  /\ kernelInitialized' = TRUE
  /\ UNCHANGED <<conversationHistory, run, jobQueue, page>>

\* Invoked that appends the user message before it checks the kernel
InvokedPushesFirst(mode, userQuery, maxSteps) ==
  LET rec == [IdleRun EXCEPT !.mode = mode, !.maxSteps = maxSteps]
      hist == Append(conversationHistory, UserMessage(userQuery))
  IN IF ~kernelInitialized
       THEN [run |-> [rec EXCEPT !.pc = "threw"], hist |-> hist]
       ELSE LET rec1 == [rec EXCEPT !.onlyExec = TRUE]
            IN IF mode = "react"
                 THEN LoopTop(rec1, hist)
                 ELSE [run |-> [rec1 EXCEPT !.completions = 1, !.pc = "create"],
                       hist |-> hist]

\* processQueryInReactLoop(userQuery, maxSteps) or processQuery(userQuery) up to
\* its first await: the locals and the history it leaves
Invoked(mode, userQuery, maxSteps) ==
  LET rec == [IdleRun EXCEPT !.mode = mode, !.maxSteps = maxSteps] IN
  IF ~kernelInitialized
    THEN [run |-> [rec EXCEPT !.pc = "threw"], hist |-> conversationHistory]
    ELSE LET hist == Append(conversationHistory, UserMessage(userQuery))
             rec1 == [rec EXCEPT !.onlyExec = TRUE]
         IN IF mode = "react"
              THEN LoopTop(rec1, hist)
              ELSE [run |-> [rec1 EXCEPT !.completions = 1, !.pc = "create"],
                    hist |-> hist]

\* a call of processQueryInReactLoop(userQuery, maxSteps) or processQuery(userQuery)
Invoke(r, mode, userQuery, maxSteps) ==
  /\ run[r].pc = "idle"
  /\ Set(r, Invoked(mode, userQuery, maxSteps))
  /\ UNCHANGED <<kernelInitialized, jobQueue, page>>

\* await this.client.chat.completions.create(...) resolves with a stream
CreateResolves(r, response) ==
  /\ run[r].pc = "create"
  /\ run' = [run EXCEPT ![r] =
       [@ EXCEPT !.pc = "stream", !.response = response, !.pending = response,
                 !.message = InitialMessage, !.start = InitialMessage,
                 !.isFirstChunk = TRUE, !.forwarded = <<>>,
                 !.call = IdleRun.call,
                 !.onlyExec = @ /\ response \in ExecResponses]]
  /\ UNCHANGED <<conversationHistory, kernelInitialized, jobQueue, page>>

\* the completion call rejects, or the stream fails at a fragment
TransportFails(r) ==
  /\ run[r].pc \in {"create", "stream"}
  /\ Set(r, Abort([run[r] EXCEPT !.pending = <<>>, !.onlyExec = FALSE],
                  conversationHistory))
  /\ UNCHANGED <<kernelInitialized, jobQueue, page>>

\* chunk.choices[0]?.delta?.content is a non-empty text
HasContent(chunk) ==
  /\ chunk # NoChoice
  /\ Get(chunk, "content").t = "string"
  /\ Get(chunk, "content").v # ""

\* NextChunk that forwards the first text fragment only
NextChunkForwardsFirstOnly(r) ==
  /\ run[r].pc = "stream"
  /\ run[r].pending # <<>>
  /\ LET chunk == Head(run[r].pending) IN
     run' = [run EXCEPT ![r] =
       [@ EXCEPT !.message = messageReducer(@, chunk),
                 !.call = messageReducerArguments(run[r].message, chunk),
                 !.pending = Tail(@),
                 !.forwarded = IF HasContent(chunk) /\ run[r].isFirstChunk
                                 THEN Append(@, [text |-> chunk["content"].v,
                                                 append |-> FALSE])
                                 ELSE @,
                 !.isFirstChunk = @ /\ ~HasContent(chunk)]]
  /\ UNCHANGED <<conversationHistory, kernelInitialized, jobQueue, page>>

\* for await (const chunk of response) { message = this.messageReducer(message, chunk);
\* if (delta?.content) { onOutput(delta.content, 'assistant', !isFirstChunk); isFirstChunk = false } }
NextChunk(r) ==
  /\ run[r].pc = "stream"
  /\ run[r].pending # <<>>
  /\ LET chunk == Head(run[r].pending) IN
     run' = [run EXCEPT ![r] =
       [@ EXCEPT !.message = messageReducer(@, chunk),
                 !.call = messageReducerArguments(run[r].message, chunk),
                 !.pending = Tail(@),
                 !.forwarded = IF HasContent(chunk)
                                 THEN Append(@, [text |-> chunk["content"].v,
                                                 append |-> ~run[r].isFirstChunk])
                                 ELSE @,
                 !.isFirstChunk = @ /\ ~HasContent(chunk)]]
  /\ UNCHANGED <<conversationHistory, kernelInitialized, jobQueue, page>>

\* the stream is exhausted: the rest of the step up to the next await
StreamEnd(r) ==
  /\ run[r].pc = "stream"
  /\ run[r].pending = <<>>
  /\ Set(r, StepBody(run[r], conversationHistory))
  /\ UNCHANGED <<kernelInitialized, jobQueue, page>>

\* await this.executeCodeTool(...) settles; push the result, go on with the tools
ExecReturns(r, outcome) ==
  /\ run[r].pc = "exec"
  /\ LET toolCall == run[r].message["tool_calls"].v[run[r].toolIdx]
         result == executeCodeTool(outcome)
     IN Set(r, ToolLoop(run[r],
                        Append(conversationHistory,
                               ToolMessage(toolCall.v,
                                 [success |-> result.success, output |-> result.output])),
                        run[r].toolIdx + 1))
  /\ UNCHANGED <<kernelInitialized, jobQueue, page>>

\* clearHistory()
clearHistory ==
  /\ conversationHistory' = <<>>
  /\ UNCHANGED <<kernelInitialized, run, jobQueue, page>>

Next ==
  \/ KernelInitialize
  \/ \E r \in RunIds, mode \in Modes, q \in Queries, maxSteps \in (-1)..MaxStepsArg :
       Invoke(r, mode, q, maxSteps)
  \/ \E r \in RunIds, response \in Responses : CreateResolves(r, response)
  \/ \E r \in RunIds : TransportFails(r)
  \/ \E r \in RunIds : NextChunk(r)
  \/ \E r \in RunIds : StreamEnd(r)
  \/ \E r \in RunIds, outcome \in KernelOutcomes : ExecReturns(r, outcome)
  \/ clearHistory

Spec == Init /\ [][Next]_vars

\* a transport and a sandbox that return: every await of a run settles, and
\* the code between two awaits runs to the next await
SpecFair ==
  /\ Spec
  /\ \A r \in RunIds :
       /\ WF_vars(\E response \in Responses : CreateResolves(r, response))
       /\ WF_vars(NextChunk(r))
       /\ WF_vars(StreamEnd(r))
       /\ WF_vars(\E outcome \in KernelOutcomes : ExecReturns(r, outcome))

(***************************************************************************)
(* Texts of execution outputs.  A text is the sequence of its characters,   *)
(* so that length, split, substring and trim are computed as the code      *)
(* computes them.                                                          *)
(***************************************************************************)
\* const MAX_LENGTH = 1000
MAX_LENGTH == 1000
\* const MAX_LINES = 20
MAX_LINES == 20

\* the character \x1b
Esc == "ESC"
Whitespace == {" ", "\n", "\t", "\r"}
DigitChars == <<"0", "1", "2", "3", "4", "5", "6", "7", "8", "9">>

RECURSIVE Decimal(_)
\* `${n}` for a number n >= 0
Decimal(n) ==
  IF n < 10 THEN <<DigitChars[n + 1]>>
  ELSE Decimal(n \div 10) \o <<DigitChars[(n % 10) + 1]>>

\* ' more lines truncated)'
LinesTruncated ==
  <<" ", "m", "o", "r", "e", " ", "l", "i", "n", "e", "s", " ",
    "t", "r", "u", "n", "c", "a", "t", "e", "d", ")">>

\* ' more characters truncated)'
CharactersTruncated ==
  <<" ", "m", "o", "r", "e", " ", "c", "h", "a", "r", "a", "c", "t", "e", "r", "s", " ",
    "t", "r", "u", "n", "c", "a", "t", "e", "d", ")">>

\* `\n... (${n} more lines truncated)`
LineMarker(n) == <<"\n", ".", ".", ".", " ", "(">> \o Decimal(n) \o LinesTruncated

\* `\n... (${n} more characters truncated)`
CharMarker(n) == <<"\n", ".", ".", ".", " ", "(">> \o Decimal(n) \o CharactersTruncated

\* where the match of /\x1b\[[0-9;]*m/ that starts at s ends, 0 if none does
AnsiEnd(text, s) ==
  IF s + 1 > Len(text) \/ text[s] # Esc \/ text[s + 1] # "[" THEN 0
  ELSE LET IsParam(p) == text[p] \in {DigitChars[d] : d \in 1..10} \cup {";"}
           stop == CHOOSE p \in (s + 2)..(Len(text) + 1) :
                     /\ p = Len(text) + 1 \/ ~IsParam(p)
                     /\ \A q \in (s + 2)..(p - 1) : IsParam(q)
       IN IF stop <= Len(text) /\ text[stop] = "m" THEN stop ELSE 0

RECURSIVE stripAnsiCodes(_)
\* text.replace(/\x1b\[[0-9;]*m/g, ''): the matches are taken left to right
stripAnsiCodes(text) ==
  LET starts == {s \in 1..Len(text) : AnsiEnd(text, s) # 0} IN
  IF starts = {} THEN text
  ELSE LET s == CHOOSE x \in starts : \A y \in starts : x <= y
       IN SubSeq(text, 1, s - 1)
            \o stripAnsiCodes(SubSeq(text, AnsiEnd(text, s) + 1, Len(text)))

\* text.trim()
trim(text) ==
  IF \A i \in 1..Len(text) : text[i] \in Whitespace THEN <<>>
  ELSE LET lo == CHOOSE i \in 1..Len(text) :
                   text[i] \notin Whitespace /\ \A j \in 1..(i - 1) : text[j] \in Whitespace
           hi == CHOOSE i \in 1..Len(text) :
                   text[i] \notin Whitespace
                     /\ \A j \in (i + 1)..Len(text) : text[j] \in Whitespace
       IN SubSeq(text, lo, hi)

\* the positions of the line breaks of a text
Newlines(text) == {i \in 1..Len(text) : text[i] = "\n"}

\* text.split('\n').length
LineCount(text) == Cardinality(Newlines(text)) + 1

\* text.split('\n').slice(0, n).join('\n'), for a text of more than n lines
FirstLines(text, n) ==
  LET nl == Newlines(text)
      cut == CHOOSE p \in nl : Cardinality({q \in nl : q < p}) = n - 1
  IN SubSeq(text, 1, cut - 1)

\* shortenOutput up to "Then limit by character count": the text with the
\* control sequences removed, trimmed and limited by lines
limitByLines(text) ==
  IF text = <<>> THEN <<>>
  ELSE LET trimmed == trim(stripAnsiCodes(text))
           lines == LineCount(trimmed)
       IN IF lines > MAX_LINES
            THEN FirstLines(trimmed, MAX_LINES) \o LineMarker(lines - MAX_LINES)
            ELSE trimmed

\* shortenOutput(text, _type)
shortenOutput(text) ==
  LET limited == limitByLines(text)
  IN IF Len(limited) > MAX_LENGTH
       THEN SubSeq(limited, 1, MAX_LENGTH) \o CharMarker(Len(limited) - MAX_LENGTH)
       ELSE limited

(***************************************************************************)
(* executeCodeTool on the output events of an execution.                   *)
(***************************************************************************)
\* { type: 'stream', data: { text } }
StreamEvent(text) == [type |-> "stream", text |-> text]
\* { type: 'execute_result' | 'display_data', data: { data } }: data maps MIME
\* types to payloads, or is Undefined
DataEvent(type, data) == [type |-> type, data |-> data]
\* { type: 'error', data: { ename, evalue, traceback } }
ErrorEvent(ename, evalue, traceback) ==
  [type |-> "error", ename |-> ename, evalue |-> evalue, traceback |-> traceback]

\* '<image/png: base64 data truncated>'
PngPlaceholder ==
  <<"<", "i", "m", "a", "g", "e", "/", "p", "n", "g", ":", " ", "b", "a", "s", "e",
    "6", "4", " ", "d", "a", "t", "a", " ", "t", "r", "u", "n", "c", "a", "t", "e",
    "d", ">">>
\* '<image/jpeg: base64 data truncated>'
JpegPlaceholder ==
  <<"<", "i", "m", "a", "g", "e", "/", "j", "p", "e", "g", ":", " ", "b", "a", "s",
    "e", "6", "4", " ", "d", "a", "t", "a", " ", "t", "r", "u", "n", "c", "a", "t",
    "e", "d", ">">>

\* the inside of JSON.stringify of a string: each line break and each quote
\* becomes a backslash and a letter
JSONStringifyText(text) ==
  LET escaped == {i \in 1..Len(text) : text[i] \in {"\n", "\""}}
      At0(i) == i + Cardinality({e \in escaped : e < i})
  IN IF escaped = {} THEN text
     ELSE [j \in 1..(Len(text) + Cardinality(escaped)) |->
             LET i == CHOOSE x \in 1..Len(text) :
                        At0(x) = j \/ (x \in escaped /\ At0(x) + 1 = j)
             IN IF i \notin escaped THEN text[i]
                ELSE IF At0(i) = j THEN "\\"
                ELSE IF text[i] = "\n" THEN "n" ELSE "\""]

RECURSIVE join(_, _)
\* parts.join(separator)
join(parts, separator) ==
  IF parts = <<>> THEN <<>>
  ELSE IF Len(parts) = 1 THEN parts[1]
  ELSE parts[1] \o separator \o join(Tail(parts), separator)

\* data[mime], truthy
Has(data, mime) == mime \in DOMAIN data /\ data[mime] # <<>>

\* what one pass of the loop over result.outputs pushes to outputParts
outputParts(evt) ==
  IF evt.type = "stream" THEN <<shortenOutput(evt.text)>>
  ELSE IF evt.type \in {"execute_result", "display_data"} THEN
    IF evt.data = Undefined THEN <<>>
    ELSE IF Has(evt.data, "image/png") THEN <<PngPlaceholder>>
    ELSE IF Has(evt.data, "image/jpeg") THEN <<JpegPlaceholder>>
    ELSE IF Has(evt.data, "text/html") THEN <<shortenOutput(evt.data["text/html"])>>
    ELSE IF Has(evt.data, "application/json")
      THEN <<shortenOutput(<<"\"">> \o JSONStringifyText(evt.data["application/json"])
                                    \o <<"\"">>)>>
    ELSE IF Has(evt.data, "text/plain") THEN <<shortenOutput(evt.data["text/plain"])>>
    ELSE <<>>
  ELSE IF evt.type \in {"error", "execute_error"} THEN
    <<evt.ename \o <<":", " ">> \o evt.evalue>>
      \o (IF Len(evt.traceback) > 0
            THEN <<join([k \in 1..(IF Len(evt.traceback) < 5 THEN Len(evt.traceback) ELSE 5) |->
                           stripAnsiCodes(evt.traceback[k])],
                        <<"\n">>)>>
            ELSE <<>>)
  ELSE <<>>

RECURSIVE allOutputParts(_)
\* for (const evt of result.outputs) ...
allOutputParts(outputs) ==
  IF outputs = <<>> THEN <<>>
  ELSE outputParts(Head(outputs)) \o allOutputParts(Tail(outputs))

\* executeCodeTool after kernelManager.executeCode returned the result:
\* output = outputParts.join('\n').trim(), or the fixed text of a result
\* without output
executeCodeToolResult(result) ==
  LET output == trim(join(allOutputParts(result.outputs), <<"\n">>))
  IN IF output # <<>> THEN [success |-> result.success, output |-> output]
     ELSE executeCodeTool(IF result.success THEN "success" ELSE "failure")

\* await this.executeCodeTool(...) settles for an execution that produced
\* the output events of run[r].result
ExecReturnsResult(r) ==
  /\ run[r].pc = "exec"
  /\ LET toolCall == run[r].message["tool_calls"].v[run[r].toolIdx]
         result == executeCodeToolResult(run[r].result)
     IN Set(r, ToolLoop(run[r],
                        Append(conversationHistory,
                               ToolMessage(toolCall.v,
                                 [success |-> result.success, output |-> result.output])),
                        run[r].toolIdx + 1))
  /\ UNCHANGED <<kernelInitialized, jobQueue, page>>

(***************************************************************************)
(* The accumulation on its own: the for-await loop over one stream, for    *)
(* every streamed response built from a small alphabet of fragments.       *)
(***************************************************************************)
\* longest stream, in deltas
MaxDeltas == 2

\* the tool-call indexes the transport uses
Indices == {0, 1}
IdOf(i) == IF i = 0 THEN "call_0" ELSE IF i = 1 THEN "call_1" ELSE "call_2"

ToolFragments ==
  UNION {{FragStart(i, IdOf(i), "execu", ""), FragName(i, "teCode"), FragArgs(i, "{}")} :
           i \in Indices}

\* the tool_calls array of one delta: at most one fragment per index
ToolLists ==
  {<<f>> : f \in ToolFragments}
    \cup UNION {{<<f, g>> : g \in {h \in ToolFragments : h.v["index"] # f.v["index"]}} :
                 f \in ToolFragments}

StreamedDeltas ==
  {EmptyObject, DeltaText("a"), NoChoice}
    \cup {DeltaTools(l) : l \in ToolLists}
    \cup {[content |-> Str("a"), tool_calls |-> Arr(l)] : l \in ToolLists}

StreamedResponses == UNION {[1..n -> StreamedDeltas] : n \in 0..MaxDeltas}

\* the messages an accumulation starts from
InitialMessages ==
  {InitialMessage, [role |-> Str("assistant"), content |-> Str("x")], EmptyObject}

InitReducer ==
  /\ conversationHistory = <<>>
  /\ kernelInitialized = TRUE
  /\ jobQueue = EmptyQueue
  /\ InitPage
  /\ \E response \in StreamedResponses, message \in InitialMessages :
       run = [r \in RunIds |->
                [IdleRun EXCEPT !.pc = "stream", !.response = response,
                                !.pending = response, !.message = message,
                                !.start = message]]

NextReducer == \E r \in RunIds : NextChunk(r)

SpecReducer == InitReducer /\ [][NextReducer]_vars

RECURSIVE Accumulate(_, _)
\* messageReducer folded over the chunks in arrival order
Accumulate(message, chunks) ==
  IF chunks = <<>> THEN message
  ELSE Accumulate(messageReducer(message, Head(chunks)), Tail(chunks))

\* the same delta delivered one fragment at a time
Refine(delta) ==
  IF delta = NoChoice THEN <<NoChoice>>
  ELSE (IF "role" \in DOMAIN delta THEN <<[role |-> delta["role"]]>> ELSE <<>>)
    \o (IF "content" \in DOMAIN delta THEN <<[content |-> delta["content"]]>> ELSE <<>>)
    \o (IF "tool_calls" \in DOMAIN delta
          THEN [p \in 1..Len(delta["tool_calls"].v) |->
                  DeltaTools(<<delta["tool_calls"].v[p]>>)]
          ELSE <<>>)

RECURSIVE RefineAll(_)
RefineAll(chunks) ==
  IF chunks = <<>> THEN <<>> ELSE Refine(Head(chunks)) \o RefineAll(Tail(chunks))

\* the tool-call fragments of a stream, in arrival order
RECURSIVE Fragments(_)
Fragments(chunks) ==
  IF chunks = <<>> THEN <<>>
  ELSE (IF Head(chunks) # NoChoice /\ "tool_calls" \in DOMAIN Head(chunks)
          THEN Head(chunks)["tool_calls"].v ELSE <<>>)
       \o Fragments(Tail(chunks))

RECURSIVE Pieces(_, _, _)
\* the text the fragments at index i give for a member of function, joined in
\* arrival order; undefined when no fragment gives it
Pieces(frags, i, member) ==
  IF frags = <<>> THEN Undefined
  ELSE LET f == Head(frags).v
           rest == Pieces(Tail(frags), i, member)
           here == IF f["index"] = Num(i) /\ "function" \in DOMAIN f
                     THEN Get(f["function"].v, member) ELSE Undefined
       IN IF here.t = "undefined" THEN rest
          ELSE IF rest.t = "undefined" THEN here
          ELSE Str(here.v \o rest.v)

StreamDone(r) == run[r].pc = "stream" /\ run[r].pending = <<>>

\* C9: the accumulated message does not depend on how the stream is cut into
\* deltas: it equals the message accumulated from the same fragments
\* delivered one per delta
AccumulationIndependentOfChunking ==
  \A r \in RunIds :
    StreamDone(r)
      => run[r].message = Accumulate(run[r].start, RefineAll(run[r].response))

\* C10: every index a fragment of the stream carried has its slot at that
\* position of the tool-call list, holding the name and the arguments joined
\* from the fragments of that index
FragmentsAddressedByIndex ==
  \A r \in RunIds :
    StreamDone(r)
      => \A i \in Indices :
           (\E p \in 1..Len(Fragments(run[r].response)) :
              Fragments(run[r].response)[p].v["index"] = Num(i))
             => LET tcs == Get(run[r].message, "tool_calls")
                    slot == At(tcs.v, i)
                IN /\ IsArray(tcs)
                   /\ slot.t = "object"
                   /\ \A member \in {"name", "arguments"} :
                        LET want == Pieces(Fragments(run[r].response), i, member)
                        IN want.t # "undefined"
                             => /\ Get(slot.v, "function").t = "object"
                                /\ Get(Get(slot.v, "function").v, member) = want

(***************************************************************************)
(* The tool result on its own: one awaited execution, for every result     *)
(* built from a small family of output events.                             *)
(***************************************************************************)
\* most lines of an output text
MaxOutputLines == 50
\* longest line of an output text, in characters
MaxLineWidth == 100

\* a text of L lines of w characters each
Block(L, w) ==
  [i \in 1..(L * (w + 1) - 1) |-> IF i % (w + 1) = 0 THEN "\n" ELSE "a"]

LineCounts == {1, 19, 20, 21, 30, MaxOutputLines}
LineWidths == {1, 48, 49, 50, MaxLineWidth}

\* a text as a program prints it: bare, ended by a line break, or coloured
Printed(text) ==
  {text, text \o <<"\n">>,
   <<Esc, "[", "3", "1", "m">> \o text \o <<Esc, "[", "0", "m">>}

OutputTexts == UNION {Printed(Block(L, w)) : L \in LineCounts, w \in LineWidths}

\* one line longer than the character limit
LongLine == Block(1, MAX_LENGTH + MaxLineWidth)

DataPayloads ==
  {Undefined,
   ("image/png" :> LongLine) @@ ("text/plain" :> Block(1, 1)),
   ("image/jpeg" :> LongLine),
   ("text/html" :> LongLine),
   ("text/html" :> Block(MaxOutputLines, 1)),
   ("application/json" :> Block(2, 1)),
   ("application/json" :> LongLine),
   ("text/plain" :> Block(MaxOutputLines, MaxLineWidth)),
   ("text/plain" :> Block(1, 1)),
   ("text/markdown" :> Block(1, 1))}

Tracebacks ==
  {<<>>,
   [k \in 1..3 |-> <<Esc, "[", "3", "1", "m">> \o Block(1, 1) \o <<Esc, "[", "0", "m">>],
   [k \in 1..7 |-> Block(1, 1)],
   <<Block(MaxOutputLines, 1)>>,
   <<LongLine>>}

ErrorValues == {Block(1, 1), Block(MaxOutputLines, 1), LongLine}

KernelResults ==
  {[success |-> TRUE, outputs |-> <<StreamEvent(text)>>] : text \in OutputTexts}
    \cup {[success |-> TRUE, outputs |-> <<DataEvent(type, data)>>] :
            type \in {"execute_result", "display_data"}, data \in DataPayloads}
    \cup {[success |-> FALSE, outputs |-> <<ErrorEvent(<<"E">>, evalue, traceback)>>] :
            evalue \in ErrorValues, traceback \in Tracebacks}
    \cup {[success |-> TRUE, outputs |-> <<>>],
          [success |-> TRUE,
           outputs |-> <<StreamEvent(Block(MaxOutputLines, 1)),
                         DataEvent("execute_result", ("text/plain" :> Block(1, 1)))>>]}

\* a React run awaiting the execution of the one tool call of its first step
InitOutput ==
  LET message == Accumulate(InitialMessage, RespExec) IN
  /\ conversationHistory = <<UserMessage("q"), AssistantMessage(message)>>
  /\ kernelInitialized = TRUE
  /\ jobQueue = EmptyQueue
  /\ InitPage
  /\ \E result \in KernelResults :
       run = [r \in RunIds |->
                [IdleRun EXCEPT !.pc = "exec", !.maxSteps = 2, !.loopCount = 1,
                                !.completions = 1, !.message = message,
                                !.response = RespExec, !.toolIdx = 1,
                                !.hasExecutedTools = TRUE, !.toolCalls = 1,
                                !.onlyExec = TRUE, !.result = result]]

NextOutput == \E r \in RunIds : ExecReturnsResult(r)

SpecOutput == InitOutput /\ [][NextOutput]_vars

(***************************************************************************)
(* The terminal: the keydown handler of terminalInput, which starts script  *)
(* executions and agent runs.  Each activation of the handler is a caller   *)
(* with its own locals; the history and the kernel are shared.              *)
(***************************************************************************)
\* the activations of the handler in a session
Callers == {1, 2}

\* settings.maxSteps
SettingsMaxSteps == 2

\* what the model answers in a terminal session
TerminalResponses == {RespExec, RespText}

\* Enter in script mode: the input is run on the kernel, unless the kernel is
\* not initialized.  currentMode is set by the mode buttons at any time, so
\* each key event meets either mode
EnterScript(c) ==
  /\ run[c].pc = "idle"
  /\ run' = [run EXCEPT ![c] =
       IF ~kernelInitialized
         THEN [Emit(IdleRun, "kernelNotInitialized") EXCEPT !.mode = "script",
                                                           !.pc = "returned"]
         ELSE [IdleRun EXCEPT !.mode = "script", !.pc = "script"]]
  /\ UNCHANGED <<conversationHistory, kernelInitialized, jobQueue, page>>

\* Enter in query mode: '/single ' runs processQuery, anything else the
\* React loop with settings.maxSteps
EnterQuery(c, mode, input) ==
  /\ run[c].pc = "idle"
  /\ IF ~kernelInitialized
       THEN /\ run' = [run EXCEPT ![c] =
                 [Emit(IdleRun, "kernelNotInitialized") EXCEPT !.mode = mode,
                                                               !.pc = "returned"]]
            /\ UNCHANGED <<conversationHistory, kernelInitialized, jobQueue, page>>
       ELSE Invoke(c, mode, input, SettingsMaxSteps)

\* await kernelManager.executeCode(input) of script mode settles
ScriptReturns(c) ==
  /\ run[c].pc = "script"
  /\ run' = [run EXCEPT ![c] = [@ EXCEPT !.pc = "returned"]]
  /\ UNCHANGED <<conversationHistory, kernelInitialized, jobQueue, page>>

InitTerminal ==
  /\ conversationHistory = <<>>
  /\ kernelInitialized = FALSE
  /\ jobQueue = EmptyQueue
  /\ InitPage
  /\ run = [c \in Callers |-> IdleRun]

NextTerminal ==
  \/ KernelInitialize
  \/ \E c \in Callers : EnterScript(c)
  \/ \E c \in Callers, mode \in Modes, q \in Queries : EnterQuery(c, mode, q)
  \/ \E c \in Callers : ScriptReturns(c)
  \/ \E c \in Callers, response \in TerminalResponses : CreateResolves(c, response)
  \/ \E c \in Callers : NextChunk(c)
  \/ \E c \in Callers : StreamEnd(c)
  \/ \E c \in Callers, outcome \in KernelOutcomes : ExecReturns(c, outcome)

SpecTerminal == InitTerminal /\ [][NextTerminal]_vars

(***************************************************************************)
(* The job queue: submitChatJob, submitCodeJob, getJobStatus, cancelJob    *)
(* and listJobs.  A job is a record owned by the queue; the order list     *)
(* holds the ids still to be popped; the single worker is stopped, ready   *)
(* to pop (draining was triggered) or awaiting the job it dispatched.      *)
(* Scheduling is cooperative: the worker runs from one await to the next   *)
(* without interleaving.  getJobStatus and listJobs only read the records. *)
(***************************************************************************)
\* the jobs submitted in a session
MaxJobs == 2

JobKinds == {"conversational", "direct-execution"}

\* what the model answers to a conversational job: a final text
QueueResponses == {RespText}

\* the invocation a dispatched job runs as
Slot == CHOOSE r \in RunIds : TRUE

\* the record submission creates
Job(id, kind, now) ==
  [id |-> id, kind |-> kind, status |-> "queued", submittedAt |-> now,
   startedAt |-> 0, completedAt |-> 0, input |-> "q",
   result |-> "none", error |-> "none"]

\* submit that triggers draining for the first job only
submitJobTriggersOnce(kind) ==
  /\ Len(jobQueue.jobs) < MaxJobs
  /\ LET id == Len(jobQueue.jobs) + 1
         now == jobQueue.clock + 1
     IN jobQueue' = [jobQueue EXCEPT !.jobs = Append(@, Job(id, kind, now)),
                                     !.order = Append(@, id),
                                     !.clock = now,
                                     !.worker = IF jobQueue.jobs = <<>> THEN "ready" ELSE @]
  /\ UNCHANGED <<conversationHistory, kernelInitialized, run, page>>

\* submit that triggers draining whether a drain is in progress or not
submitJobAlwaysTriggers(kind) ==
  /\ Len(jobQueue.jobs) < MaxJobs
  /\ LET id == Len(jobQueue.jobs) + 1
         now == jobQueue.clock + 1
     IN jobQueue' = [jobQueue EXCEPT !.jobs = Append(@, Job(id, kind, now)),
                                     !.order = Append(@, id),
                                     !.clock = now,
                                     !.worker = "ready"]
  /\ UNCHANGED <<conversationHistory, kernelInitialized, run, page>>

\* submit(kind, input): create the job in queued, append its id to the order
\* list, trigger draining if not already in progress, return the id
submitJob(kind) ==
  /\ Len(jobQueue.jobs) < MaxJobs
  /\ LET id == Len(jobQueue.jobs) + 1
         now == jobQueue.clock + 1
     IN jobQueue' = [jobQueue EXCEPT !.jobs = Append(@, Job(id, kind, now)),
                                     !.order = Append(@, id),
                                     !.clock = now,
                                     !.worker = IF @ = "stopped" THEN "ready" ELSE @]
  /\ UNCHANGED <<conversationHistory, kernelInitialized, run, page>>

\* cancel that reports true for every job it knows
cancelJobReportsKnown(jobId) ==
  /\ LET ok == /\ jobId \in 1..Len(jobQueue.jobs)
               /\ jobQueue.jobs[jobId].status = "queued"
     IN jobQueue' = [jobQueue EXCEPT
          !.jobs = IF ok THEN [@ EXCEPT ![jobId].status = "cancelled"] ELSE @,
          !.cancelled = [jobId |-> jobId, returned |-> jobId \in 1..Len(jobQueue.jobs)]]
  /\ UNCHANGED <<conversationHistory, kernelInitialized, run, page>>

\* cancel that is accepted for a running job too
cancelJobPreempts(jobId) ==
  /\ LET ok == /\ jobId \in 1..Len(jobQueue.jobs)
               /\ jobQueue.jobs[jobId].status \in {"queued", "running"}
     IN jobQueue' = [jobQueue EXCEPT
          !.jobs = IF ok THEN [@ EXCEPT ![jobId].status = "cancelled"] ELSE @,
          !.cancelled = [jobId |-> jobId, returned |-> ok]]
  /\ UNCHANGED <<conversationHistory, kernelInitialized, run, page>>

\* cancel(jobId): true, and the job cancelled, only if the job is queued;
\* false for a running, terminal or unknown job.  The call and what it
\* returned are kept in jobQueue.cancelled
cancelJob(jobId) ==
  /\ LET ok == /\ jobId \in 1..Len(jobQueue.jobs)
               /\ jobQueue.jobs[jobId].status = "queued"
     IN jobQueue' = [jobQueue EXCEPT
          !.jobs = IF ok THEN [@ EXCEPT ![jobId].status = "cancelled"] ELSE @,
          !.cancelled = [jobId |-> jobId, returned |-> ok]]
  /\ UNCHANGED <<conversationHistory, kernelInitialized, run, page>>

\* a drain loop that runs the popped job whatever its status
drainQueueRunsCancelled(q) ==
  IF q.order = <<>>
    THEN [q EXCEPT !.worker = "stopped", !.current = 0]
    ELSE LET id == Head(q.order) IN
         [q EXCEPT !.order = Tail(@),
                   !.jobs[id].status = "running",
                   !.jobs[id].startedAt = q.clock + 1,
                   !.clock = @ + 1,
                   !.worker = "awaiting",
                   !.current = id]

RECURSIVE drainQueueFromTail(_)
\* a drain loop that pops the newest id of the order list
drainQueueFromTail(q) ==
  IF q.order = <<>>
    THEN [q EXCEPT !.worker = "stopped", !.current = 0]
    ELSE LET id == q.order[Len(q.order)]
             rest == [q EXCEPT !.order = SubSeq(@, 1, Len(@) - 1)]
         IN IF q.jobs[id].status = "cancelled"
              THEN drainQueueFromTail(rest)
              ELSE [rest EXCEPT !.jobs[id].status = "running",
                                !.jobs[id].startedAt = q.clock + 1,
                                !.clock = @ + 1,
                                !.worker = "awaiting",
                                !.current = id]

RECURSIVE drainQueue(_)
\* the drain loop from its top to its next await: pop the head of the order
\* list, skip it if cancelled, otherwise mark it running; exit when the list
\* is empty
drainQueue(q) ==
  IF q.order = <<>>
    THEN [q EXCEPT !.worker = "stopped", !.current = 0]
    ELSE LET id == Head(q.order)
             rest == [q EXCEPT !.order = Tail(@)]
         IN IF q.jobs[id].status = "cancelled"
              THEN drainQueue(rest)
              ELSE [rest EXCEPT !.jobs[id].status = "running",
                                !.jobs[id].startedAt = q.clock + 1,
                                !.clock = @ + 1,
                                !.worker = "awaiting",
                                !.current = id]

\* dispatch of a job: a conversational job to the reasoning loop, a
\* direct-execution job to the tool invoker, which reports an uninitialized
\* kernel as a result instead of throwing
dispatch(kind) ==
  IF kind = "conversational"
    THEN Invoked("react", "q", SettingsMaxSteps)
    ELSE [run |-> [IdleRun EXCEPT !.mode = "script",
                                  !.pc = IF kernelInitialized THEN "script"
                                                              ELSE "returned"],
          hist |-> conversationHistory]

\* the worker goes on from queue q to its next await
workerContinues(q) ==
  LET next == drainQueue(q) IN
  /\ jobQueue' = next
  /\ IF next.worker = "awaiting"
       THEN Set(Slot, dispatch(next.jobs[next.current].kind))
       ELSE Set(Slot, [run |-> IdleRun, hist |-> conversationHistory])
  /\ UNCHANGED <<kernelInitialized, page>>

\* the worker that draining triggered starts
workerStarts ==
  /\ jobQueue.worker = "ready"
  /\ workerContinues(jobQueue)

\* a worker that records the failure and then leaves the drain loop
jobSettlesStopsOnFailure ==
  /\ jobQueue.worker = "awaiting"
  /\ run[Slot].pc \in {"returned", "threw"}
  /\ LET id == jobQueue.current
         threw == run[Slot].pc = "threw"
         recorded ==
           [jobQueue EXCEPT !.jobs[id].status = IF threw THEN "failed" ELSE "completed",
                            !.jobs[id].completedAt = jobQueue.clock + 1,
                            !.jobs[id].result = IF threw THEN "none" ELSE "result",
                            !.jobs[id].error = IF threw THEN "error" ELSE "none",
                            !.clock = @ + 1,
                            !.current = 0]
     IN IF threw
          THEN /\ jobQueue' = [recorded EXCEPT !.worker = "stopped"]
               /\ Set(Slot, [run |-> IdleRun, hist |-> conversationHistory])
               /\ UNCHANGED <<kernelInitialized, page>>
          ELSE workerContinues(recorded)

\* the dispatched job settles: record completed with its result or failed
\* with its error, then go on with the order list
jobSettles ==
  /\ jobQueue.worker = "awaiting"
  /\ run[Slot].pc \in {"returned", "threw"}
  /\ LET id == jobQueue.current
         threw == run[Slot].pc = "threw"
     IN workerContinues(
          [jobQueue EXCEPT !.jobs[id].status = IF threw THEN "failed" ELSE "completed",
                           !.jobs[id].completedAt = jobQueue.clock + 1,
                           !.jobs[id].result = IF threw THEN "none" ELSE "result",
                           !.jobs[id].error = IF threw THEN "error" ELSE "none",
                           !.clock = @ + 1,
                           !.current = 0])

NextQueue ==
  \/ KernelInitialize
  \/ \E kind \in JobKinds : submitJob(kind)
  \/ \E jobId \in 1..(MaxJobs + 1) : cancelJob(jobId)
  \/ workerStarts
  \/ jobSettles
  \/ \E response \in QueueResponses : CreateResolves(Slot, response)
  \/ TransportFails(Slot)
  \/ NextChunk(Slot)
  \/ StreamEnd(Slot)
  \/ ScriptReturns(Slot)

SpecQueue == Init /\ [][NextQueue]_vars

\* the event loop runs every continuation that is ready, and every awaited
\* completion, stream fragment and execution arrives (or the transport fails)
SpecQueueFair ==
  /\ SpecQueue
  /\ WF_vars(workerStarts)
  /\ WF_vars(jobSettles)
  /\ WF_vars(\E response \in QueueResponses : CreateResolves(Slot, response))
  /\ WF_vars(NextChunk(Slot))
  /\ WF_vars(StreamEnd(Slot))
  /\ WF_vars(ScriptReturns(Slot))

(***************************************************************************)
(* The settings: SettingsManager over localStorage, the settings dialog    *)
(* and the startup configuration from URL parameters and agent artifact.   *)
(* The text of an input field or URL parameter is the sequence of its      *)
(* characters.                                                             *)
(***************************************************************************)
\* the number NaN
NaN == [t |-> "number", nan |-> TRUE]

\* a || b for a number a: b when a is NaN or 0
Or(a, b) == IF a = NaN \/ a = Num(0) THEN b ELSE a

RECURSIVE DigitsValue(_, _)
\* the decimal value of the digits digits[1..n]
DigitsValue(digits, n) ==
  IF n = 0 THEN 0
  ELSE 10 * DigitsValue(digits, n - 1)
         + ((CHOOSE d \in 1..10 : DigitChars[d] = digits[n]) - 1)

\* parseInt(text) for a text without a radix prefix: leading whitespace is
\* skipped, a sign is read, then the longest run of decimal digits; NaN when
\* there is no digit
parseInt(text) ==
  LET blank(p) == p <= Len(text) /\ text[p] \in Whitespace
      start == CHOOSE p \in 1..(Len(text) + 1) :
                 /\ ~blank(p)
                 /\ \A q \in 1..(p - 1) : blank(q)
      signed == start <= Len(text) /\ text[start] \in {"-", "+"}
      first == IF signed THEN start + 1 ELSE start
      digit(p) == p <= Len(text) /\ text[p] \in {DigitChars[d] : d \in 1..10}
      stop == CHOOSE p \in first..(Len(text) + 1) :
                /\ ~digit(p)
                /\ \A q \in first..(p - 1) : digit(q)
      value == DigitsValue(SubSeq(text, first, stop - 1), stop - first)
  IN IF stop = first THEN NaN
     ELSE IF signed /\ text[start] = "-" THEN Num(0 - value) ELSE Num(value)

\* JSON.stringify(object): members whose value is undefined are left out,
\* NaN is written as null; the text is kept as the members it spells
JSONStringifySettings(object) ==
  [json |-> [k \in {m \in DOMAIN object : object[m] # Undefined} |->
               IF object[k] = NaN THEN Null ELSE object[k]]]

\* JSON.parse(text) of a text written by JSON.stringify
JSONParseSettings(text) == text.json

\* SettingsManager.loadSettings(): the stored item over the defaults
loadSettings(stored) ==
  IF stored # Null
    THEN Spread(DEFAULT_SETTINGS, JSONParseSettings(stored))
    ELSE DEFAULT_SETTINGS

\* SettingsManager.saveSettings that writes the members it was given
settingsManagerSaveSettingsWritesPartial(held, partial, stored, quotaExceeded) ==
  LET merged == Spread(held, partial) IN
  [settings |-> merged,
   stored |-> IF quotaExceeded THEN stored ELSE JSONStringifySettings(partial),
   threw |-> quotaExceeded]

\* SettingsManager.saveSettings(partial) on held settings and a stored item:
\* the settings and the item it leaves, and whether it threw because
\* localStorage.setItem threw
settingsManagerSaveSettings(held, partial, stored, quotaExceeded) ==
  LET merged == Spread(held, partial) IN
  [settings |-> merged,
   stored |-> IF quotaExceeded THEN stored ELSE JSONStringifySettings(merged),
   threw |-> quotaExceeded]

\* SettingsManager.resetSettings(): the settings and the item it leaves
resetSettings ==
  /\ settings' = DEFAULT_SETTINGS
  /\ localStorage' = Null
  /\ UNCHANGED <<conversationHistory, kernelInitialized, run, jobQueue,
                 agentSettings, startup, terminalRenderer, kernelRestart>>

\* what is typed into the maxSteps field of the dialog
DialogMaxSteps == {<<>>, <<"5", "1">>}

\* the max_steps parameter of the URL, when given
UrlMaxSteps == {<<"1", "0", "0">>, <<"a", "b", "c">>}

\* parseUrlParams(): the parameters of the URL that are given and not empty
UrlParams ==
  LET Pick(key, values) == {EmptyObject} \cup {(key :> v) : v \in values} IN
  {m @@ n @@ a :
     m \in Pick("model", {"url-model"}),
     n \in Pick("max_steps", UrlMaxSteps),
     a \in Pick("agent_artifact", {"hypha-agents/my-agent"})}

\* the manifests an agent artifact can carry
Manifests ==
  {[name |-> "my-agent", modelConfig |-> [model |-> "artifact-model"]],
   [name |-> "my-agent", modelConfig |-> [model |-> "artifact-model"],
    startup_script |-> "print(prompt)"],
   [name |-> "my-agent"]}

\* the items a previous session can have left in the storage
StoredItems ==
  {Null,
   JSONStringifySettings(Spread(DEFAULT_SETTINGS,
     [openaiModel |-> Str("saved-model"), maxSteps |-> Num(7)]))}

\* the page on a URL with the parameters urlParams and a storage holding stored
InitSettings ==
  /\ conversationHistory = <<>>
  /\ kernelInitialized = FALSE
  /\ run = [r \in RunIds |-> IdleRun]
  /\ jobQueue = EmptyQueue
  /\ terminalRenderer = NewTerminalRenderer
  /\ kernelRestart = [pc |-> "idle", disabled |-> TRUE]
  /\ \E stored \in StoredItems, urlParams \in UrlParams :
       /\ localStorage = stored
       /\ settings = loadSettings(stored)
       /\ agentSettings = loadSettings(stored)
       /\ startup = [pc |-> "idle", urlParams |-> urlParams, agentArtifact |-> Null]

\* the body of an async function of the page, with what it leaves
PageSet(res) ==
  /\ settings' = res.settings
  /\ localStorage' = res.stored
  /\ agentSettings' = res.agent

\* saveSettings() of the dialog: save the form, then update the agent
\* manager, which exists once the kernel is initialized
saveSettings(model, maxSteps, quotaExceeded) ==
  /\ LET form == [DEFAULT_SETTINGS EXCEPT
                    !.openaiProvider = settings.openaiProvider,
                    !.openaiBaseUrl = settings.openaiBaseUrl,
                    !.openaiModel = Str(model),
                    !.openaiApiKey = settings.openaiApiKey,
                    !.hyphaServerUrl = settings.hyphaServerUrl,
                    !.hyphaWorkspace = settings.hyphaWorkspace,
                    !.maxSteps = Or(parseInt(maxSteps), Num(10))]
         saved == settingsManagerSaveSettings(settings, form, localStorage, quotaExceeded)
     IN PageSet([settings |-> saved.settings, stored |-> saved.stored,
                 agent |-> IF ~saved.threw /\ kernelInitialized
                             THEN saved.settings ELSE agentSettings])
  /\ UNCHANGED <<conversationHistory, kernelInitialized, run, jobQueue,
                 startup, terminalRenderer, kernelRestart>>

\* initializeKernel() settles: on success the agent manager is constructed on
\* the settings and the restart button enabled; then the startup goes on to
\* applyUrlConfiguration when the URL has parameters
initializeKernel(succeeds) ==
  /\ startup.pc = "idle"
  /\ kernelInitialized' = succeeds
  /\ agentSettings' = IF succeeds THEN settings ELSE agentSettings
  /\ kernelRestart' = [kernelRestart EXCEPT !.disabled = IF succeeds THEN FALSE ELSE @]
  /\ startup' = [startup EXCEPT !.pc =
       IF DOMAIN startup.urlParams = {} THEN "done"
       ELSE IF "agent_artifact" \in DOMAIN startup.urlParams THEN "fetch"
       ELSE "apply"]
  /\ UNCHANGED <<conversationHistory, run, jobQueue, settings, localStorage,
                 terminalRenderer>>

\* await fetchAgentArtifact(...) settles with the artifact or null
fetchAgentArtifact(artifact) ==
  /\ startup.pc = "fetch"
  /\ startup' = [startup EXCEPT !.pc = "apply", !.agentArtifact = artifact]
  /\ UNCHANGED <<conversationHistory, kernelInitialized, run, jobQueue, settings,
                 localStorage, agentSettings, terminalRenderer, kernelRestart>>

\* the settings applyUrlConfiguration computes from the URL parameters
updatedSettings(currentSettings, urlParams) ==
  LET withModel == IF "model" \in DOMAIN urlParams
                     THEN [currentSettings EXCEPT !.openaiModel = Str(urlParams["model"])]
                     ELSE currentSettings
  IN IF "max_steps" \in DOMAIN urlParams
       THEN [withModel EXCEPT !.maxSteps = Or(parseInt(urlParams["max_steps"]), Num(10))]
       ELSE withModel

\* applyUrlConfiguration() from the URL parameters to its next await: save
\* the updated settings and update the agent manager; a throwing save ends
\* the startup; then run the startup script of the artifact, if any
applyUrlConfiguration(quotaExceeded) ==
  /\ startup.pc = "apply"
  /\ LET urlParams == startup.urlParams
         hasChanges == (DOMAIN urlParams) \cap {"model", "max_steps"} # {}
         saved == IF hasChanges
                    THEN settingsManagerSaveSettings(
                           settings, updatedSettings(settings, urlParams),
                           localStorage, quotaExceeded)
                    ELSE [settings |-> settings, stored |-> localStorage, threw |-> FALSE]
         manifest == startup.agentArtifact
     IN /\ PageSet([settings |-> saved.settings, stored |-> saved.stored,
                    agent |-> IF hasChanges /\ ~saved.threw /\ kernelInitialized
                                THEN saved.settings ELSE agentSettings])
        /\ startup' = [startup EXCEPT !.pc =
             IF saved.threw THEN "done"
             ELSE IF manifest # Null /\ "startup_script" \in DOMAIN manifest
               THEN "script"
             ELSE "done"]
  /\ UNCHANGED <<conversationHistory, kernelInitialized, run, jobQueue,
                 terminalRenderer, kernelRestart>>

\* await generateSystemPromptFromScript(...) settles: a prompt is saved with
\* the script and given to the agent manager; a throwing save is caught
startupScriptReturns(systemPrompt, quotaExceeded) ==
  /\ startup.pc = "script"
  /\ LET saved == settingsManagerSaveSettings(
                    settings,
                    [startupScript |-> Str(startup.agentArtifact.startup_script),
                     systemPrompt |-> Str(systemPrompt)],
                    localStorage, quotaExceeded)
     IN IF systemPrompt = ""
          THEN UNCHANGED <<settings, localStorage, agentSettings>>
          ELSE PageSet([settings |-> saved.settings, stored |-> saved.stored,
                        agent |-> IF ~saved.threw /\ kernelInitialized
                                    THEN saved.settings ELSE agentSettings])
  /\ startup' = [startup EXCEPT !.pc = "done"]
  /\ UNCHANGED <<conversationHistory, kernelInitialized, run, jobQueue,
                 terminalRenderer, kernelRestart>>

\* the page is loaded again on the same storage: a new SettingsManager, no
\* kernel or agent manager yet, the URL parameters of the new visit
reload(urlParams) ==
  /\ startup.pc = "done"
  /\ settings' = loadSettings(localStorage)
  /\ agentSettings' = loadSettings(localStorage)
  /\ kernelInitialized' = FALSE
  /\ startup' = [pc |-> "idle", urlParams |-> urlParams, agentArtifact |-> Null]
  /\ kernelRestart' = [pc |-> "idle", disabled |-> TRUE]
  /\ UNCHANGED <<conversationHistory, run, jobQueue, localStorage, terminalRenderer>>

NextSettings ==
  \/ \E succeeds \in BOOLEAN : initializeKernel(succeeds)
  \/ \E artifact \in Manifests \cup {Null} : fetchAgentArtifact(artifact)
  \/ \E quotaExceeded \in BOOLEAN : applyUrlConfiguration(quotaExceeded)
  \/ \E systemPrompt \in {"", "You are my agent"}, quotaExceeded \in BOOLEAN :
       startupScriptReturns(systemPrompt, quotaExceeded)
  \/ \E maxSteps \in DialogMaxSteps, quotaExceeded \in BOOLEAN :
       saveSettings("gpt-4", maxSteps, quotaExceeded)
  \/ resetSettings
  \/ \E urlParams \in UrlParams : reload(urlParams)

SpecSettings == InitSettings /\ [][NextSettings]_vars

\* sessions in which localStorage.setItem never throws
NextPersist ==
  \/ \E succeeds \in BOOLEAN : initializeKernel(succeeds)
  \/ \E artifact \in Manifests \cup {Null} : fetchAgentArtifact(artifact)
  \/ applyUrlConfiguration(FALSE)
  \/ \E systemPrompt \in {"", "You are my agent"} :
       startupScriptReturns(systemPrompt, FALSE)
  \/ \E maxSteps \in DialogMaxSteps : saveSettings("gpt-4", maxSteps, FALSE)
  \/ resetSettings
  \/ \E urlParams \in UrlParams : reload(urlParams)

SpecPersist == InitSettings /\ [][NextPersist]_vars

(***************************************************************************)
(* The command history of the terminal: TerminalRenderer.commandHistory    *)
(* and historyIndex.  A command is the sequence of its characters.         *)
(***************************************************************************)
\* the commands a session holds at most
MaxHistory == 3

\* the arguments of addToHistory
Commands == {<<"a">>, <<"b">>, <<" ">>}

\* array[index] || null of JavaScript: array[index] is undefined outside the
\* array, and undefined and the empty string give null
ElementOrNull(array, index) ==
  IF index \in 0..(Len(array) - 1) /\ array[index + 1] # <<>>
    THEN Str(array[index + 1]) ELSE Null

HistorySet(t) ==
  /\ terminalRenderer' = t
  /\ UNCHANGED <<conversationHistory, kernelInitialized, run, jobQueue, settings,
                 localStorage, agentSettings, startup, kernelRestart>>

\* renderLine(line): the container holds a line
renderLine ==
  /\ HistorySet([terminalRenderer EXCEPT !.lines = TRUE, !.returned = Undefined])

\* clear(): the container is emptied, the command history is not touched
clear ==
  /\ HistorySet([terminalRenderer EXCEPT !.lines = FALSE, !.returned = Undefined])

\* addToHistory that leaves historyIndex where it was
addToHistoryKeepsIndex(command) ==
  /\ Len(terminalRenderer.commandHistory) < MaxHistory
  /\ LET h == terminalRenderer.commandHistory
         pushed == IF trim(command) # <<>> /\ (Len(h) = 0 \/ h[Len(h)] # command)
                     THEN Append(h, command) ELSE h
     IN HistorySet([terminalRenderer EXCEPT
                      !.commandHistory = pushed,
                      !.returned = Undefined, !.command = command,
                      !.ups = 0, !.downs = 0, !.pattern = TRUE])

\* addToHistory(command)
addToHistory(command) ==
  /\ Len(terminalRenderer.commandHistory) < MaxHistory
  /\ LET h == terminalRenderer.commandHistory
         pushed == IF trim(command) # <<>> /\ (Len(h) = 0 \/ h[Len(h)] # command)
                     THEN Append(h, command) ELSE h
     IN HistorySet([terminalRenderer EXCEPT
                      !.commandHistory = pushed, !.historyIndex = Len(pushed),
                      !.returned = Undefined, !.command = command,
                      !.ups = 0, !.downs = 0, !.pattern = TRUE])

\* the count of calls after one more navigateHistory(direction)
Counted(t, direction) ==
  IF ~t.pattern THEN t
  ELSE IF direction = "up"
    THEN IF t.downs > 0 THEN [t EXCEPT !.pattern = FALSE, !.ups = 0, !.downs = 0]
         ELSE [t EXCEPT !.ups = IF @ < MaxHistory + 2 THEN @ + 1 ELSE @]
  ELSE IF t.downs >= t.ups THEN [t EXCEPT !.pattern = FALSE, !.ups = 0, !.downs = 0]
       ELSE [t EXCEPT !.downs = @ + 1]

\* navigateHistory whose 'up' does not stop at the oldest command
navigateHistoryUnguardedUp(direction) ==
  LET t == Counted(terminalRenderer, direction)
      h == t.commandHistory
      i == t.historyIndex
  IN IF Len(h) = 0 THEN HistorySet([t EXCEPT !.returned = Null])
     ELSE IF direction = "up"
       THEN LET j == i - 1
            IN HistorySet([t EXCEPT !.historyIndex = j, !.returned = ElementOrNull(h, j)])
     ELSE IF i < Len(h) - 1
       THEN HistorySet([t EXCEPT !.historyIndex = i + 1,
                                 !.returned = ElementOrNull(h, i + 1)])
     ELSE HistorySet([t EXCEPT !.historyIndex = Len(h), !.returned = Str(<<>>)])

\* navigateHistory(direction)
navigateHistory(direction) ==
  LET t == Counted(terminalRenderer, direction)
      h == t.commandHistory
      i == t.historyIndex
  IN IF Len(h) = 0 THEN HistorySet([t EXCEPT !.returned = Null])
     ELSE IF direction = "up"
       THEN LET j == IF i > 0 THEN i - 1 ELSE i
            IN HistorySet([t EXCEPT !.historyIndex = j, !.returned = ElementOrNull(h, j)])
     ELSE IF i < Len(h) - 1
       THEN HistorySet([t EXCEPT !.historyIndex = i + 1,
                                 !.returned = ElementOrNull(h, i + 1)])
     ELSE HistorySet([t EXCEPT !.historyIndex = Len(h), !.returned = Str(<<>>)])

\* resetHistoryIndex()
resetHistoryIndex ==
  /\ HistorySet([terminalRenderer EXCEPT
                   !.historyIndex = Len(terminalRenderer.commandHistory),
                   !.returned = Undefined, !.ups = 0, !.downs = 0, !.pattern = FALSE])

NextHistory ==
  \/ \E command \in Commands : addToHistory(command)
  \/ \E direction \in {"up", "down"} : navigateHistory(direction)
  \/ resetHistoryIndex
  \/ renderLine
  \/ clear

SpecHistory == Init /\ [][NextHistory]_vars

(***************************************************************************)
(* The restart button.  kernelRestart.pc is the await restartKernel is at: *)
(* destroyKernel, createKernel or executeStartupScript.  restartKernel     *)
(* writes kernelId only when createKernel resolves, with the id of the new *)
(* kernel, so isInitialized() is not changed by any of its steps.          *)
(***************************************************************************)
\* click on restartBtn: the handler disables the button and calls
\* restartKernel, which runs to await destroyKernel(this.kernelId); on a
\* kernel manager without a kernel restartKernel throws and the handler
\* enables the button again
restartClick ==
  /\ ~kernelRestart.disabled
  /\ kernelRestart.pc = "idle"
  /\ kernelRestart' = IF kernelInitialized
                         THEN [pc |-> "destroying", disabled |-> TRUE]
                         ELSE kernelRestart
  /\ UNCHANGED <<conversationHistory, kernelInitialized, run, jobQueue, settings,
                 localStorage, agentSettings, startup, terminalRenderer>>

\* an await of restartKernel settles: it goes on to the next one, or the
\* restart is over, or it rejects and the catch blocks of restartKernel and
\* of the handler run; either way the handler enables the button at the end
restartSettles(resolves) ==
  /\ kernelRestart.pc # "idle"
  /\ kernelRestart' =
       IF resolves /\ kernelRestart.pc = "destroying"
         THEN [kernelRestart EXCEPT !.pc = "creating"]
       ELSE IF resolves /\ kernelRestart.pc = "creating"
         THEN [kernelRestart EXCEPT !.pc = "startup"]
       ELSE [pc |-> "idle", disabled |-> FALSE]
  /\ UNCHANGED <<conversationHistory, kernelInitialized, run, jobQueue, settings,
                 localStorage, agentSettings, startup, terminalRenderer>>

NextRestart ==
  \/ \E succeeds \in BOOLEAN : initializeKernel(succeeds)
  \/ restartClick
  \/ \E resolves \in BOOLEAN : restartSettles(resolves)
  \/ \E c \in Callers : EnterScript(c)
  \/ \E c \in Callers, q \in Queries : EnterQuery(c, "react", q)
  \/ \E c \in Callers : ScriptReturns(c)
  \/ \E c \in Callers, response \in {RespExec} : CreateResolves(c, response)
  \/ \E c \in Callers : NextChunk(c)
  \/ \E c \in Callers : StreamEnd(c)
  \/ \E c \in Callers, outcome \in KernelOutcomes : ExecReturns(c, outcome)

SpecRestart == InitTerminal /\ [][NextRestart]_vars

(***************************************************************************)
(* Properties of the reasoning loop.                                       *)
(***************************************************************************)
React(r) == run[r].mode = "react"
Terminal(r) == run[r].pc \in {"returned", "threw"}
Last(seq) == seq[Len(seq)]

\* C1: with maxSteps >= 1, when every completion is answered by a response
\* that requests executeCode, the run makes exactly maxSteps completion
\* calls, returns without throwing, and has emitted the budget-exhaustion
\* notification
LoopTerminationByBudget ==
  \A r \in RunIds :
    (React(r) /\ Terminal(r) /\ run[r].maxSteps >= 1 /\ run[r].onlyExec)
      => /\ run[r].pc = "returned"
         /\ run[r].completions = run[r].maxSteps
         /\ "exhausted" \in run[r].emitted

LoopTerminationByBudgetWitness ==
  \E r \in RunIds :
    /\ React(r) /\ run[r].pc = "returned" /\ run[r].onlyExec
    /\ run[r].maxSteps = 3 /\ run[r].completions = 3
    /\ "exhausted" \in run[r].emitted

\* C2: the first step whose assistant message carries no tool calls is the
\* last one: the run has returned, the completion calls made are those up to
\* that step, and the final-response notification was emitted
LoopTerminationByNaturalStop ==
  \A r \in RunIds :
    (React(r) /\ run[r].noToolAt # 0)
      => /\ run[r].pc = "returned"
         /\ run[r].completions = run[r].noToolAt
         /\ run[r].loopCount = run[r].noToolAt
         /\ "final" \in run[r].emitted

LoopTerminationByNaturalStopWitness ==
  \E r \in RunIds :
    /\ React(r) /\ run[r].pc = "returned" /\ run[r].maxSteps = 4
    /\ run[r].noToolAt = 2 /\ run[r].completions = 2

\* C3: a run that returned is Finished only if its last assistant message
\* requested no tools, Exhausted only if the budget was reached while the
\* last assistant message requested tools, and never both
TerminalStatesDistinguished ==
  \A r \in RunIds :
    (React(r) /\ run[r].pc = "returned" /\ run[r].maxSteps >= 1)
      => /\ "final" \in run[r].emitted => run[r].toolCalls = 0
         /\ "exhausted" \in run[r].emitted
              => run[r].loopCount >= run[r].maxSteps /\ run[r].toolCalls > 0
         /\ ~("final" \in run[r].emitted /\ "exhausted" \in run[r].emitted)

\* the ids of the tool calls an assistant message lists
CallIds(msg) ==
  IF IsArray(msg.tool_calls)
    THEN {Get(msg.tool_calls.v[p].v, "id") :
            p \in {q \in 1..Len(msg.tool_calls.v) : msg.tool_calls.v[q].t = "object"}}
    ELSE {}

\* C4: every tool-role message of the history carries the id of a tool call
\* listed in an assistant message that precedes it
ToolResultsFollowTheirCalls ==
  \A i \in 1..Len(conversationHistory) :
    conversationHistory[i].role = "tool"
      => \E j \in 1..(i - 1) :
           /\ conversationHistory[j].role = "assistant"
           /\ conversationHistory[i].tool_call_id \in CallIds(conversationHistory[j])

\* C5: once a run has returned, every assistant message of the history that
\* lists n tool calls is followed by exactly n tool-role messages, the i-th
\* carrying the id of the i-th call
OneResultPerToolCall ==
  (\A r \in RunIds : run[r].pc = "returned")
    => \A j \in 1..Len(conversationHistory) :
         LET msg == conversationHistory[j]
             n == IF IsArray(msg.tool_calls) THEN Len(msg.tool_calls.v) ELSE 0
         IN (msg.role = "assistant" /\ n > 0)
              => /\ j + n <= Len(conversationHistory)
                 /\ \A p \in 1..n :
                      /\ conversationHistory[j + p].role = "tool"
                      /\ msg.tool_calls.v[p].t = "object"
                      /\ conversationHistory[j + p].tool_call_id
                           = Get(msg.tool_calls.v[p].v, "id")
                 /\ j + n + 1 <= Len(conversationHistory)
                      => conversationHistory[j + n + 1].role # "tool"

\* a complete function call that names an unknown tool or whose arguments do
\* not parse
MalformedCall(toolCall) ==
  /\ toolCall.t = "object"
  /\ Get(toolCall.v, "type") = Str("function")
  /\ Get(toolCall.v, "function").t = "object"
  /\ \/ Get(Get(toolCall.v, "function").v, "name") # Str("executeCode")
     \/ JSONParse(Get(Get(toolCall.v, "function").v, "arguments")).threw

\* C6: a step whose tool calls all name an unknown tool or carry unparsable
\* arguments does not throw; it appends one failed tool-role message per
\* call, carrying the call's id, and the loop continues as after a failed
\* execution
MalformedCallsRecovered ==
  [][\A r \in RunIds :
       LET tcs == Get(run[r].message, "tool_calls")
           base == Len(conversationHistory) + 1
       IN (/\ StreamEnd(r) /\ React(r)
           /\ IsArray(tcs) /\ Len(tcs.v) > 0
           /\ \A p \in 1..Len(tcs.v) : MalformedCall(tcs.v[p]))
            => /\ run'[r].pc # "threw"
               /\ Len(conversationHistory') >= base + Len(tcs.v)
               /\ \A p \in 1..Len(tcs.v) :
                    /\ conversationHistory'[base + p].role = "tool"
                    /\ conversationHistory'[base + p].tool_call_id = Get(tcs.v[p].v, "id")
                    /\ conversationHistory'[base + p].content.json.success = FALSE
               /\ "final" \notin run'[r].emitted
               /\ run'[r].pc = IF run[r].loopCount < run[r].maxSteps
                                 THEN "create" ELSE "returned"]_vars

RECURSIVE NextStop(_, _)
\* what the tool loop meets from the i-th call on: a call to execute, a slot
\* that is no object, or the end of the list
NextStop(tcs, i) ==
  IF i > Len(tcs) THEN "end"
  ELSE IF tcs[i].t # "object" \/ Get(tcs[i].v, "function").t # "object" THEN "defect"
  ELSE IF /\ Get(tcs[i].v, "type") = Str("function")
          /\ Get(Get(tcs[i].v, "function").v, "name") = Str("executeCode")
          /\ ~JSONParse(Get(Get(tcs[i].v, "function").v, "arguments")).threw
          /\ Get(JSONParse(Get(Get(tcs[i].v, "function").v, "arguments")).value,
                 "code").t = "string"
    THEN "exec"
  ELSE NextStop(tcs, i + 1)

\* C7: when the sandbox throws or reports failure for a tool call of step
\* k < maxSteps, a tool-role message with success false is appended for that
\* call, the run does not abort, and it goes on: to the next call to execute,
\* or else to the next completion call
ToolFailureRecoverable ==
  [][\A r \in RunIds : \A outcome \in {"failure", "throws"} :
       LET tcs == run[r].message["tool_calls"].v
           stop == NextStop(tcs, run[r].toolIdx + 1)
           at == Len(conversationHistory) + 1
       IN (/\ ExecReturns(r, outcome) /\ React(r)
           /\ run[r].loopCount < run[r].maxSteps
           /\ stop # "defect")
            => /\ Len(conversationHistory') >= at
               /\ conversationHistory'[at].role = "tool"
               /\ conversationHistory'[at].tool_call_id = Get(tcs[run[r].toolIdx].v, "id")
               /\ conversationHistory'[at].content.json.success = FALSE
               /\ run'[r].pc = IF stop = "exec" THEN "exec" ELSE "create"
               /\ stop = "end" => run'[r].completions = run[r].completions + 1]_vars

ToolFailureRecoverableWitness ==
  \E r \in RunIds :
    /\ React(r) /\ run[r].pc = "create" /\ run[r].completions = 2
    /\ Len(conversationHistory) > 0
    /\ Last(conversationHistory).role = "tool"
    /\ Last(conversationHistory).content.json
         = [success |-> FALSE, output |-> "Execution error: sandbox"]

\* a step of the run ended in this transition, with tool calls executed
ExecutedStepEnds(r) ==
  /\ React(r)
  /\ StreamEnd(r) \/ \E outcome \in KernelOutcomes : ExecReturns(r, outcome)
  /\ run'[r].pc \in {"create", "returned"}
  /\ run'[r].hasExecutedTools

\* C8: the reminder is appended at the end of a step that executed tool calls
\* exactly if the step counter is at least maxSteps - 2, nowhere else, and
\* whether the loop goes on depends on the step counter alone
BudgetReminder ==
  [][\A r \in RunIds :
       /\ ExecutedStepEnds(r)
            => /\ Last(conversationHistory') = ReminderMessage
                    <=> run[r].loopCount >= run[r].maxSteps - 2
               /\ run'[r].pc = "create" <=> run[r].loopCount < run[r].maxSteps
       /\ (/\ Len(conversationHistory') > Len(conversationHistory)
           /\ Last(conversationHistory') = ReminderMessage)
            => ExecutedStepEnds(r)]_vars

Reminders ==
  Cardinality({i \in 1..Len(conversationHistory) :
                 conversationHistory[i] = ReminderMessage})

BudgetReminderWitness ==
  \E r \in RunIds :
    /\ React(r) /\ run[r].pc = "returned" /\ run[r].maxSteps = 4
    /\ run[r].completions = 4 /\ run[r].hasExecutedTools
    /\ Reminders = 3
    /\ Len(conversationHistory) >= 12
(***************************************************************************)
(* Properties of the accumulation inside a step.                           *)
(***************************************************************************)
\* a scalar field that has received its first non-empty value
IsSet(x) == x.t = "string" /\ x.v # ""

\* C11: role, and the id and type of a tool call, keep their first non-empty
\* value: a delta that repeats or supplies such a field neither overwrites
\* nor lengthens the accumulated value
ScalarFieldsFirstWins ==
  [][\A r \in RunIds :
       NextChunk(r)
         => LET old == run[r].message
                new == run'[r].message
                tcs == Get(old, "tool_calls")
            IN /\ IsSet(Get(old, "role")) => Get(new, "role") = Get(old, "role")
               /\ IsArray(tcs)
                    => \A p \in 1..Len(tcs.v) : \A field \in {"id", "type"} :
                         (tcs.v[p].t = "object" /\ IsSet(Get(tcs.v[p].v, field)))
                           => LET slot == At(Get(new, "tool_calls").v, p - 1)
                              IN /\ slot.t = "object"
                                 /\ Get(slot.v, field) = Get(tcs.v[p].v, field)]_vars

\* C12: messageReducer leaves its arguments as they were: after the call the
\* previous message, its tool-call list included, and the chunk are what
\* they were before it
MessageReducerPure ==
  [][\A r \in RunIds :
       NextChunk(r)
         => /\ run'[r].call.previous = run[r].message
            /\ run'[r].call.chunk = Head(run[r].pending)]_vars

\* the accumulated tool-call list has an index that was never filled below
\* one that was
Gapped(message) ==
  /\ IsArray(Get(message, "tool_calls"))
  /\ \E p \in 1..Len(message["tool_calls"].v) : message["tool_calls"].v[p].t # "object"

\* C13: a stream that ends with an index gap in the accumulated tool-call
\* list aborts the step: the run throws, nothing is appended to the history
\* and no tool call of the list is executed
IndexGapAbortsStep ==
  [][\A r \in RunIds :
       (StreamEnd(r) /\ Gapped(run[r].message))
         => /\ run'[r].pc = "threw"
            /\ "agentError" \in run'[r].emitted
            /\ conversationHistory' = conversationHistory]_vars

\* the plain assistant message of a step that produced nothing
EmptyAssistantMessage ==
  [role |-> "assistant", content |-> Str(""),
   tool_calls |-> Undefined, tool_call_id |-> Undefined]

\* the accumulated message has no text and no tool calls
EmptyMessage(message) ==
  /\ Get(message, "content") \in {Str(""), Null, Undefined}
  /\ \/ Get(message, "tool_calls").t \in {"undefined", "null"}
     \/ IsArray(Get(message, "tool_calls")) /\ Get(message, "tool_calls").v = <<>>

\* C14: a stream without deltas accumulates to a message with empty content
\* and no tool calls; a step that ends with such a message appends it as the
\* assistant message and the run returns without an error, in the React loop
\* with the final-response notification
EmptyStreamFinishes ==
  [][\A r \in RunIds :
       StreamEnd(r)
         => /\ run[r].response = <<>>
                 => /\ EmptyMessage(run[r].message)
                    /\ Get(run[r].message, "content") = Str("")
            /\ EmptyMessage(run[r].message)
                 => /\ conversationHistory'
                         = Append(conversationHistory, EmptyAssistantMessage)
                    /\ run'[r].pc = "returned"
                    /\ "agentError" \notin run'[r].emitted
                    /\ React(r) => "final" \in run'[r].emitted]_vars

EmptyStreamFinishesWitness ==
  \E r \in RunIds :
    /\ React(r) /\ run[r].pc = "returned" /\ run[r].response = <<>>
    /\ run[r].maxSteps = 3 /\ run[r].completions = 2
    /\ run[r].emitted = {"step", "final"}
    /\ Len(conversationHistory) > 2
    /\ Last(conversationHistory) = EmptyAssistantMessage

RECURSIVE Concat(_)
\* the texts of a sequence joined in order
Concat(texts) ==
  IF texts = <<>> THEN "" ELSE Head(texts) \o Concat(Tail(texts))

RECURSIVE TextFragments(_)
\* the non-empty text fragments of a sequence of chunks, in arrival order
TextFragments(chunks) ==
  IF chunks = <<>> THEN <<>>
  ELSE (IF HasContent(Head(chunks)) THEN <<Head(chunks)["content"].v>> ELSE <<>>)
       \o TextFragments(Tail(chunks))

\* the chunks of the current stream consumed so far
Consumed(rec) == SubSeq(rec.response, 1, Len(rec.response) - Len(rec.pending))

\* C15: after each chunk is consumed the output channel has received exactly
\* the text fragments of the chunks consumed so far, one call per fragment in
\* arrival order, the first as a new line and the others appended to it; when
\* the stream ends the assistant message appended to the history has the
\* forwarded fragments joined as its content
TextForwardedInOrder ==
  [][\A r \in RunIds :
       /\ NextChunk(r)
            => /\ Len(run'[r].forwarded) = Len(TextFragments(Consumed(run'[r])))
               /\ \A k \in 1..Len(run'[r].forwarded) :
                    /\ run'[r].forwarded[k].text = TextFragments(Consumed(run'[r]))[k]
                    /\ run'[r].forwarded[k].append = (k > 1)
       /\ StreamEnd(r)
            => LET at == Len(conversationHistory) + 1
                   texts == [k \in 1..Len(run[r].forwarded) |-> run[r].forwarded[k].text]
               IN /\ Len(conversationHistory') >= at
                  /\ conversationHistory'[at].role = "assistant"
                  /\ conversationHistory'[at].content = Str(Concat(texts))
                  /\ texts = TextFragments(run[r].response)]_vars

TextForwardedInOrderWitness ==
  \E r \in RunIds :
    /\ run[r].pc = "returned"
    /\ run[r].forwarded = <<[text |-> "Hel", append |-> FALSE],
                            [text |-> "lo", append |-> TRUE]>>
    /\ Len(conversationHistory) > 0
    /\ Last(conversationHistory).role = "assistant"
    /\ Last(conversationHistory).content = Str("Hello")

\* C16: a transport failure is reported on the output channel and thrown to
\* the caller; the completion call is not issued again, the history is left
\* as it was, without an assistant message for the failed step, and the run
\* that threw does nothing more
TransportFailureAborts ==
  [][\A r \in RunIds :
       /\ TransportFails(r)
            => /\ run'[r].pc = "threw"
               /\ "agentError" \in run'[r].emitted
               /\ run'[r].completions = run[r].completions
               /\ conversationHistory' = conversationHistory
       /\ run[r].pc = "threw" => run'[r] = run[r]]_vars

TransportFailureAbortsWitness ==
  \E r \in RunIds :
    /\ React(r) /\ run[r].pc = "threw" /\ run[r].maxSteps = 4
    /\ run[r].completions = 2 /\ "agentError" \in run[r].emitted
    /\ run[r].response = RespText
    /\ run[r].message["content"] = Str("Hel")
    /\ Len(conversationHistory) = 3
    /\ conversationHistory[1].role = "user"
    /\ conversationHistory[2].role = "assistant"
    /\ conversationHistory[3].role = "tool"

(***************************************************************************)
(* Properties of the tool result.                                          *)
(***************************************************************************)
\* the execution a run awaited has returned and its tool message is appended
Executed(r) == run[r].pc # "exec" /\ Len(conversationHistory) >= 3

\* the output member of the tool result of the execution
ToolOutput == conversationHistory[3].content.json.output

\* the piece occurs in the text
Contains(text, piece) ==
  \E i \in 1..(Len(text) - Len(piece) + 1) :
    SubSeq(text, i, i + Len(piece) - 1) = piece

\* the execution produced one stream event
OneStream(r) ==
  /\ Len(run[r].result.outputs) = 1
  /\ run[r].result.outputs[1].type = "stream"

\* the text of that event as printed: control sequences and surrounding
\* blanks apart
Payload(r) == trim(stripAnsiCodes(run[r].result.outputs[1].text))

\* C17: a stream text of L > 20 lines whose first 20 lines fit the character
\* cap gives exactly its first 20 lines followed by the marker that states
\* L - 20 more lines; a text of at most 20 lines gets no line marker
TruncationByLines ==
  \A r \in RunIds :
    (Executed(r) /\ OneStream(r))
      => LET text == Payload(r)
             L == LineCount(text)
         IN /\ (L > MAX_LINES /\ Len(FirstLines(text, MAX_LINES)) <= MAX_LENGTH)
                 => ToolOutput = FirstLines(text, MAX_LINES) \o LineMarker(L - MAX_LINES)
            /\ L <= MAX_LINES => ~Contains(ToolOutput, LinesTruncated)

\* the execution produced one output event
OneEvent(r) == Len(run[r].result.outputs) = 1

\* the tool result carries text of the output events
HasOutput(r) == trim(join(allOutputParts(run[r].result.outputs), <<"\n">>)) # <<>>

\* the room two truncation markers take
MarkerRoom ==
  Len(LineMarker(MAX_LENGTH * MAX_LENGTH)) + Len(CharMarker(MAX_LENGTH * MAX_LENGTH))

\* C18: whatever the kind of the one output event, the tool result keeps at
\* most 20 lines and 1000 characters of it apart from the truncation
\* markers; an error event gives no control sequence and at most 5 traceback
\* lines after its message; an image gives the placeholder and nothing of
\* the payload
SummaryBoundedPerEvent ==
  \A r \in RunIds :
    (Executed(r) /\ OneEvent(r) /\ HasOutput(r))
      => LET evt == run[r].result.outputs[1] IN
         /\ Len(ToolOutput) <= MAX_LENGTH + MarkerRoom
         /\ LineCount(ToolOutput) <= MAX_LINES + 2
         /\ evt.type = "error"
              => /\ ~Contains(ToolOutput, <<Esc>>)
                 /\ LineCount(ToolOutput) <= LineCount(evt.evalue) + 5
         /\ (evt.type \in {"execute_result", "display_data"} /\ evt.data # Undefined)
              => /\ Has(evt.data, "image/png") => ToolOutput = PngPlaceholder
                 /\ (~Has(evt.data, "image/png") /\ Has(evt.data, "image/jpeg"))
                      => ToolOutput = JpegPlaceholder

\* C19: whenever shortenOutput drops lines of a stream text the tool result
\* contains the line marker with the number of dropped lines, and whenever
\* it drops characters the tool result contains the character marker with
\* the number of dropped characters, also when it does both
MarkersIndependent ==
  \A r \in RunIds :
    (Executed(r) /\ OneStream(r))
      => LET text == Payload(r)
             L == LineCount(text)
             limited == limitByLines(run[r].result.outputs[1].text)
         IN /\ L > MAX_LINES => Contains(ToolOutput, LineMarker(L - MAX_LINES))
            /\ Len(limited) > MAX_LENGTH
                 => Contains(ToolOutput, CharMarker(Len(limited) - MAX_LENGTH))

(***************************************************************************)
(* Properties of the terminal session.                                     *)
(***************************************************************************)
\* the callers whose kernelManager.executeCode call has not settled: script
\* executions and tool calls of agent runs
InFlight == {c \in DOMAIN run : run[c].pc \in {"script", "exec"}}

\* C20: at most one call of kernelManager.executeCode is in flight at any
\* time, whichever entry points the key events take
SandboxMutualExclusion == Cardinality(InFlight) <= 1

\* the callers with a processQuery or processQueryInReactLoop run that has
\* started and not yet returned or thrown
ActiveRuns ==
  {c \in DOMAIN run : run[c].mode \in Modes /\ run[c].pc \in {"create", "stream", "exec"}}

\* C21: at most one loop run is active on the AgentManager at any time, so
\* that the messages of two runs are never interleaved in the history
OneRunAtATime == Cardinality(ActiveRuns) <= 1

\* a is an initial part of b
IsPrefix(a, b) == Len(a) <= Len(b) /\ SubSeq(b, 1, Len(a)) = a

\* C22: every step of every operation leaves the history it found as a
\* prefix of the history it leaves
HistoryAppendOnly ==
  [][IsPrefix(conversationHistory, conversationHistory')]_vars

\* C22, amended: every step of a run leaves the history it found as a prefix
\* of the history it leaves; the only step that removes messages is
\* clearHistory, which empties the history and touches nothing else
HistoryAppendOnlyBetweenClears ==
  [][\/ IsPrefix(conversationHistory, conversationHistory')
     \/ /\ conversationHistory' = <<>>
        /\ run' = run
        /\ kernelInitialized' = kernelInitialized]_vars

HistoryAppendOnlyBetweenClearsWitness ==
  \E r \in RunIds :
    /\ React(r) /\ run[r].pc = "returned" /\ run[r].completions = 2
    /\ Len(conversationHistory) = 2
    /\ conversationHistory[1].role = "tool"
    /\ conversationHistory[2].role = "assistant"

\* the messages a step appended
NewMessages == SubSeq(conversationHistory', Len(conversationHistory) + 1,
                      Len(conversationHistory'))

\* the tool-role messages among them, in order
NewResults == SelectSeq(NewMessages, LAMBDA m : m.role = "tool")

Jobs == jobQueue.jobs
JobIds == 1..Len(Jobs)
Running == {j \in JobIds : Jobs[j].status = "running"}
TerminalStatuses == {"completed", "failed", "cancelled"}

\* C24: under any interleaving of submit, cancel and the drain worker at most
\* one job has status running, it is the job the one worker awaits, and no
\* second worker is started while a drain is in progress: the worker is ready
\* to pop only when no job is running
AtMostOneRunning ==
  /\ Cardinality(Running) <= 1
  /\ Running = IF jobQueue.worker = "awaiting" THEN {jobQueue.current} ELSE {}

\* a job was submitted while another job was running, and the running job is
\* still the only one
AtMostOneRunningWitness ==
  \E a \in Running, b \in JobIds :
    /\ Jobs[b].status = "queued"
    /\ Jobs[b].submittedAt > Jobs[a].startedAt
    /\ jobQueue.worker = "awaiting"

\* C25: a job is created in queued; the only status changes are queued to
\* running (the worker now awaits the job), queued to cancelled (a cancel call
\* that returned true), running to completed and running to failed; so a job
\* in completed, failed or cancelled never changes status again
JobLifecycle ==
  [][/\ Len(Jobs') >= Len(Jobs)
     /\ \A j \in 1..Len(Jobs') :
          IF j > Len(Jobs)
            THEN Jobs'[j].status = "queued"
            ELSE \/ Jobs'[j].status = Jobs[j].status
                 \/ /\ Jobs[j].status = "queued"
                    /\ Jobs'[j].status = "running"
                    /\ jobQueue.worker \in {"ready", "awaiting"}
                    /\ jobQueue'.worker = "awaiting"
                    /\ jobQueue'.current = j
                 \/ /\ Jobs[j].status = "queued"
                    /\ Jobs'[j].status = "cancelled"
                    /\ jobQueue'.cancelled = [jobId |-> j, returned |-> TRUE]
                 \/ /\ Jobs[j].status = "running"
                    /\ Jobs'[j].status \in {"completed", "failed"}]_vars

\* one job ran and failed, the other was cancelled while queued, and a cancel
\* call on the failed job was made after that
JobLifecycleWitness ==
  /\ {Jobs[j].status : j \in JobIds} = {"failed", "cancelled"}
  /\ jobQueue.cancelled.jobId \in JobIds
  /\ Jobs[jobQueue.cancelled.jobId].status = "failed"
  /\ jobQueue.worker = "stopped"

\* C26: a call cancel(jobId) returns true exactly when the job is queued at
\* the call, and then the job is cancelled and no other record changes; for a
\* running, terminal or unknown job it returns false and no record changes;
\* and a running job that was refused cancellation goes on to completed or
\* failed
CancellationBoundary ==
  /\ [][\A jobId \in 1..(MaxJobs + 1) :
          cancelJob(jobId) =>
            LET queued == jobId \in JobIds /\ Jobs[jobId].status = "queued" IN
            /\ jobQueue'.cancelled = [jobId |-> jobId, returned |-> queued]
            /\ IF queued
                 THEN Jobs' = [Jobs EXCEPT ![jobId].status = "cancelled"]
                 ELSE Jobs' = Jobs
            /\ jobQueue'.order = jobQueue.order
            /\ jobQueue'.worker = jobQueue.worker]_vars
  /\ \A j \in 1..MaxJobs :
       (/\ j \in Running
        /\ jobQueue.cancelled = [jobId |-> j, returned |-> FALSE])
         ~> (j \in JobIds /\ Jobs[j].status \in {"completed", "failed"})

\* a queued job was cancelled, then a cancel of the running job was refused,
\* and the running job completed
CancellationBoundaryWitness ==
  /\ Len(Jobs) = 2
  /\ Jobs[1].status = "completed"
  /\ Jobs[2].status = "cancelled"
  /\ Jobs[2].submittedAt < Jobs[1].startedAt
  /\ jobQueue.cancelled = [jobId |-> 1, returned |-> FALSE]
  /\ jobQueue.order = <<>>

\* the ids a step pops from the order list
Popped == {j \in JobIds : \E i \in 1..Len(jobQueue.order) : jobQueue.order[i] = j}
            \ {j \in JobIds : \E i \in 1..Len(jobQueue'.order) : jobQueue'.order[i] = j}

\* C27: a cancelled job has no startedAt, completedAt, result or error and is
\* never the job the worker awaits; no step changes its record; and a step
\* of the worker that pops cancelled jobs only dispatches nothing: it leaves
\* the conversation history as it is and no loop run or execution in flight
CancelledJobSkipped ==
  [][/\ \A j \in JobIds :
          Jobs[j].status = "cancelled" =>
            /\ Jobs[j].startedAt = 0 /\ Jobs[j].completedAt = 0
            /\ Jobs[j].result = "none" /\ Jobs[j].error = "none"
            /\ Jobs'[j] = Jobs[j]
            /\ jobQueue'.current # j
     /\ (/\ Popped # {}
         /\ \A j \in Popped : Jobs[j].status = "cancelled"
         /\ \A j \in JobIds : Jobs[j].status = "queued" => Jobs'[j].status = "queued")
          => /\ conversationHistory' = conversationHistory
             /\ run'[Slot] = IdleRun
             /\ kernelInitialized' = kernelInitialized
             /\ jobQueue'.worker = "stopped"]_vars

\* the first job was cancelled while queued and has been popped, the job
\* behind it ran on the sandbox and completed
CancelledJobSkippedWitness ==
  /\ Len(Jobs) = 2
  /\ Jobs[1].status = "cancelled"
  /\ Jobs[2].status = "completed"
  /\ Jobs[2].kind = "direct-execution"
  /\ Jobs[2].submittedAt = 2
  /\ kernelInitialized
  /\ conversationHistory = <<>>
  /\ jobQueue.order = <<>>

\* C28: jobs run in submission order: ids follow submission times, and for
\* jobs a submitted before b, neither cancelled, b has started only if a has
\* reached its terminal status, no later than b started; hence completedAt
\* is non-decreasing in submission order
FifoOrder ==
  \A a \in JobIds, b \in JobIds :
    a < b =>
      /\ Jobs[a].submittedAt < Jobs[b].submittedAt
      /\ (Jobs[a].status # "cancelled" /\ Jobs[b].status # "cancelled") =>
            /\ Jobs[b].startedAt # 0 =>
                  /\ Jobs[a].status \in {"completed", "failed"}
                  /\ Jobs[a].startedAt # 0
                  /\ Jobs[a].startedAt < Jobs[a].completedAt
                  /\ Jobs[a].completedAt <= Jobs[b].startedAt
            /\ Jobs[b].completedAt # 0 => Jobs[a].completedAt <= Jobs[b].completedAt

\* two jobs were both queued before the worker started, and both have run
FifoOrderWitness ==
  /\ Len(Jobs) = 2
  /\ Jobs[2].submittedAt < Jobs[1].startedAt
  /\ Jobs[1].status \in {"completed", "failed"}
  /\ Jobs[2].status \in {"completed", "failed"}
  /\ Jobs[1].kind = "conversational"
  /\ Len(conversationHistory) = 2

\* C29: a submission only creates the queued job with the next id, puts it
\* last in the order list and returns: it starts no job and leaves the agent
\* as it is; and when awaited work settles and the worker is scheduled, every
\* submitted job reaches completed, failed or cancelled, also a job submitted
\* after the drain loop exited on an empty order list
QueueLiveness ==
  /\ [][Len(Jobs') > Len(Jobs) =>
          /\ Len(Jobs') = Len(Jobs) + 1
          /\ Jobs'[Len(Jobs')].id = Len(Jobs')
          /\ Jobs'[Len(Jobs')].status = "queued"
          /\ \A j \in JobIds : Jobs'[j] = Jobs[j]
          /\ jobQueue'.order = Append(jobQueue.order, Len(Jobs'))
          /\ jobQueue'.worker # "stopped"
          /\ UNCHANGED <<conversationHistory, kernelInitialized, run, page>>]_vars
  /\ \A j \in 1..MaxJobs :
       (j \in JobIds) ~> (j \in JobIds /\ Jobs[j].status \in TerminalStatuses)

\* a job submitted after the drain loop had exited has run
QueueLivenessWitness ==
  /\ Len(Jobs) = 2
  /\ Jobs[1].status = "completed"
  /\ Jobs[2].status = "completed"
  /\ Jobs[2].submittedAt > Jobs[1].completedAt
  /\ jobQueue.cancelled.jobId = 0
  /\ jobQueue.worker = "stopped"

\* the jobs of the order list that are still to run
Waiting == SelectSeq(jobQueue.order, LAMBDA j : Jobs[j].status = "queued")

\* C30: when the work of the running job has thrown, the step that settles
\* the job records it as failed with its error and no result, and in the same
\* step the worker goes on: the next waiting job of the order list is running,
\* or the list is drained and the worker stopped; and a job whose work has
\* thrown does not stay running
FailedJobRecorded ==
  /\ [][\A j \in JobIds :
          (/\ Jobs[j].status = "running"
           /\ run[Slot].pc = "threw"
           /\ Jobs'[j].status # "running")
            => /\ Jobs'[j].status = "failed"
               /\ Jobs'[j].error = "error"
               /\ Jobs'[j].result = "none"
               /\ Jobs'[j].completedAt > Jobs[j].startedAt
               /\ IF Waiting = <<>>
                    THEN jobQueue'.worker = "stopped" /\ jobQueue'.order = <<>>
                    ELSE /\ jobQueue'.worker = "awaiting"
                         /\ jobQueue'.current = Head(Waiting)
                         /\ Jobs'[Head(Waiting)].status = "running"
                         /\ run'[Slot].pc # "idle"]_vars
  /\ \A j \in 1..MaxJobs :
       (j \in Running /\ run[Slot].pc = "threw")
         ~> (j \in JobIds /\ Jobs[j].status = "failed")

\* the first job failed on a transport error after its question entered the
\* history, and the job queued behind it ran and completed
FailedJobRecordedWitness ==
  /\ Len(Jobs) = 2
  /\ Jobs[1].status = "failed" /\ Jobs[1].error = "error"
  /\ Jobs[2].status = "completed" /\ Jobs[2].result = "result"
  /\ Jobs[2].submittedAt < Jobs[1].completedAt
  /\ Jobs[1].completedAt < Jobs[2].startedAt
  /\ Len(conversationHistory) >= 1
  /\ jobQueue.worker = "stopped"

(***************************************************************************)
(* Properties of the settings.                                             *)
(***************************************************************************)
\* C31: the maxSteps stored by SettingsManager, which the terminal passes to
\* processQueryInReactLoop, is an integer in 1..50, whatever is entered in
\* the dialog or given as max_steps in the URL
MaxStepsInRange ==
  /\ settings.maxSteps # NaN
  /\ settings.maxSteps.v \in 1..50

\* the model the highest-priority source gives: the artifact's model
\* configuration, then the URL parameter, then the settings held so far (the
\* saved settings over the defaults)
EffectiveModel ==
  LET manifest == startup.agentArtifact IN
  IF manifest # Null /\ "modelConfig" \in DOMAIN manifest
    THEN Str(manifest.modelConfig.model)
  ELSE IF "model" \in DOMAIN startup.urlParams
    THEN Str(startup.urlParams["model"])
  ELSE settings.openaiModel

\* C32: when applyUrlConfiguration has applied the configuration, the model
\* in effect is the one of the highest-priority source that gives a model, in
\* the order agent artifact, URL parameters, saved settings, defaults
ConfigurationPriority ==
  [][(startup.pc = "apply" /\ startup'.pc # "apply")
       => settings'.openaiModel = EffectiveModel]_vars

StepBudgetBoundsRun ==
  /\ [](\A r \in RunIds :
          React(r) => run[r].completions <=
                        (IF run[r].maxSteps > 0 THEN run[r].maxSteps ELSE 0))
  /\ \A r \in RunIds : (React(r) /\ run[r].pc # "idle") ~> Terminal(r)

\* a run used its whole budget of completion calls and returned
StepBudgetBoundsRunWitness ==
  \E r \in RunIds :
    /\ React(r) /\ run[r].pc = "returned"
    /\ run[r].maxSteps = MaxStepsArg /\ run[r].completions = MaxStepsArg
    /\ run[r].hasExecutedTools

\* C35: an invocation made while the kernel is not initialized throws at
\* once: the step that starts it ends it as thrown, leaves the conversation
\* history as it was, and has issued no completion call, started no
\* execution and written nothing to the output channel; this holds for
\* processQuery and processQueryInReactLoop alike
PreconditionFailureAtomic ==
  [][\A r \in RunIds :
       (run[r].pc = "idle" /\ run'[r].pc # "idle" /\ ~kernelInitialized)
         => /\ run'[r].pc = "threw"
            /\ conversationHistory' = conversationHistory
            /\ run'[r].completions = 0
            /\ run'[r].toolIdx = 0
            /\ run'[r].emitted = {}]_vars

\* processQuery threw on a kernel that is not initialized, with nothing in
\* the history
PreconditionFailureAtomicWitness ==
  \E r \in RunIds :
    /\ run[r].pc = "threw" /\ run[r].mode = "single"
    /\ ~kernelInitialized
    /\ run[r].completions = 0
    /\ conversationHistory = <<>>

\* C36: a step that appends the budget reminder goes on to a further
\* completion call, whose context is the history with the reminder as its
\* last message, so no run returns on the step that appended a reminder
ReminderSeenByModel ==
  [][\A r \in RunIds :
       (/\ React(r)
        /\ Len(conversationHistory') > Len(conversationHistory)
        /\ Last(conversationHistory') = ReminderMessage)
         => run'[r].pc = "create"]_vars

(***************************************************************************)
(* Properties of the restart button and of the command history.            *)
(***************************************************************************)
\* C37: while restartKernel is between the start of destroyKernel and the end
\* of the startup script, no step dispatches code to the kernel: a caller that
\* awaits an execution after the step was awaiting that same execution before
NoDispatchDuringRestart ==
  [][\A c \in Callers :
       (kernelRestart.pc # "idle" /\ run'[c].pc \in {"script", "exec"})
         => run'[c] = run[c]]_vars

\* C38: historyIndex is -1 only while the history is empty and otherwise
\* lies in 0..commandHistory.length; navigateHistory returns null, the empty
\* string or a command of the history, and null whenever the history is empty
HistoryIndexInvariant ==
  LET t == terminalRenderer
      h == t.commandHistory
  IN /\ t.historyIndex \in (-1)..Len(h)
     /\ t.historyIndex = -1 => h = <<>>
     /\ t.returned \in {Undefined, Null, Str(<<>>)} \cup {Str(h[n]) : n \in 1..Len(h)}
     /\ (h = <<>> /\ t.returned # Undefined) => t.returned = Null

\* 'up' was pressed at the oldest of several commands and returned it
HistoryIndexInvariantWitness ==
  /\ Len(terminalRenderer.commandHistory) = MaxHistory
  /\ terminalRenderer.historyIndex = 0
  /\ terminalRenderer.ups = MaxHistory + 2
  /\ terminalRenderer.returned = Str(terminalRenderer.commandHistory[1])

\* C39: right after addToHistory(c) with non-blank c the first 'up' returns
\* c; k 'up' calls after an addToHistory return the k most recent commands
\* newest first, and keep returning the oldest command when k exceeds the
\* length of the history; for k up to the length, the j-th of the following
\* 'down' calls returns the command after the one returned before, and the
\* k-th returns the empty string with historyIndex at commandHistory.length
\* (stated of the value the last of these calls returned)
NavigationRoundTrip ==
  LET t == terminalRenderer
      h == t.commandHistory
      n == Len(h)
      k == t.ups
      j == t.downs
  IN (t.pattern /\ n > 0 /\ k >= 1 /\ t.returned # Undefined) =>
       /\ (k = 1 /\ j = 0 /\ trim(t.command) # <<>>) => t.returned = Str(t.command)
       /\ (j = 0 /\ k <= n) => (t.returned = Str(h[n - k + 1]) /\ t.historyIndex = n - k)
       /\ (j = 0 /\ k > n) => (t.returned = Str(h[1]) /\ t.historyIndex = 0)
       /\ (j >= 1 /\ j < k /\ k <= n)
            => (t.returned = Str(h[n - k + j + 1]) /\ t.historyIndex = n - k + j)
       /\ (j >= 1 /\ j = k /\ k <= n) => (t.returned = Str(<<>>) /\ t.historyIndex = n)

\* every command of a full history was walked up and down again
NavigationRoundTripWitness ==
  /\ terminalRenderer.pattern
  /\ Len(terminalRenderer.commandHistory) = MaxHistory
  /\ terminalRenderer.ups = MaxHistory
  /\ terminalRenderer.downs = MaxHistory
  /\ terminalRenderer.returned = Str(<<>>)

(***************************************************************************)
(* A save that fails.                                                      *)
(***************************************************************************)
\* C40: a step of the running page that leaves the stored item as it was, as
\* a saveSettings whose localStorage.setItem throws does, leaves the settings
\* the SettingsManager holds as they were; with it the held settings stay
\* what the stored item loads as
SaveSettingsAtomic ==
  /\ [][(localStorage' = localStorage /\ ~(startup.pc = "done" /\ startup'.pc = "idle"))
          => settings' = settings]_vars
  /\ [](loadSettings(localStorage) = settings)

====
